---- MODULE Spec2Model ----
(***************************************************************************)
(* A model of the PBF reading pipeline of osmium (io/pbf_input.hpp) and of *)
(* the sorted reorder queue it is built on (thread/sorted_queue.hpp).      *)
(*                                                                         *)
(* Threads of the pipeline:                                                *)
(*   - the caller ("consumer"): read(), next_buffer(), ~PBFInput();        *)
(*   - the framing thread m_reader running PBFInput::parse_osm_data;       *)
(*   - the workers of m_thread_pool running DataBlobParser tasks.          *)
(* Every shared access (the atomics m_done and m_pending_jobs, the mutex   *)
(* protected queues) is one step; thread-local computation is merged into  *)
(* the step of the shared access that follows it.                          *)
(***************************************************************************)
EXTENDS Integers, Sequences, FiniteSets, TLC

VARIABLES
    file,             \* the blobs of the input file, the header blob first
    num_threads,      \* PBFInput::m_num_threads
    read_types,       \* the read_types argument of read()
    calls_left,       \* next_buffer() calls the caller is still going to make
    fd_pos,           \* number of blobs of the file already read from fd()
    reader_pc,        \* position of the framing thread in parse_osm_data
    n,                \* the local "int n" of parse_osm_data
    work_queue_size,  \* the local "work_queue_size" of parse_osm_data
    m_done,           \* PBFInput::m_done
    m_pending_jobs,   \* PBFInput::m_pending_jobs
    work_queue,       \* the work queue of m_thread_pool (blob numbers)
    running,          \* blob numbers of the tasks the workers are executing
    failed,           \* blob numbers whose DataBlobParser threw
    m_queue,          \* SortedQueue::m_queue
    m_offset,         \* SortedQueue::m_offset
    cons_pc,          \* position of the caller
    delivered,        \* the values handed to the caller so far, in order
    aborted,          \* std::terminate was called
    sq_pushed,        \* SortedQueue alone: the value pushed with each number
    sq_out,           \* SortedQueue alone: the argument "value" of the pops
    sq_ret,           \* SortedQueue alone: the last call that returned a bool
    m_status,         \* Writer::m_status
    m_buffer,         \* Writer::m_buffer
    m_buffer_size,    \* Writer::m_buffer_size
    w_thread,         \* Writer: the write thread behind m_write_future
    w_output,         \* Writer: calls on m_output and entries added to m_output_queue
    w_ret,            \* Writer: the last call of the caller and how it ended
    w_next,           \* Writer: number of calls made, the id of the next one
    w_accepted,       \* Writer: ids of the data of the calls that returned normally
    bp_call,          \* BlobParser alone: a Blob and what operator() did with it
    pb_call,          \* PBFPrimitiveBlockParser alone: a block and what operator() returned
    tl_builder,       \* TagListBuilder alone: the builder and the TagList it appends to
    checked_task,     \* CheckedTask alone: m_thread, m_future and the owning thread
    wkb_factory       \* WKBFactory alone: its members and the result of the last call

w_vars == << m_status, m_buffer, m_buffer_size, w_thread, w_output, w_ret,
             w_next, w_accepted >>

\* the variables of PBFInput, SortedQueue, Writer and the two parsers
io_vars == << file, num_threads, read_types, calls_left, fd_pos, reader_pc, n,
              work_queue_size, m_done, m_pending_jobs, work_queue, running,
              failed, m_queue, m_offset, cons_pc, delivered, aborted,
              sq_pushed, sq_out, sq_ret, w_vars, bp_call, pb_call >>

vars == << io_vars, tl_builder, checked_task, wkb_factory >>

(***************************************************************************)
(* Bounds of the model.                                                    *)
(***************************************************************************)
MaxBlobs == 3
MaxThreads == 2
MaxCalls == 5
MaxNum == 3
NumBlobsBP == 42
MaxCallsBP == 1
MaxThreadsJoin == 1
NumBlobsJoin == 27
MaxWriterCalls == 5
MaxItemSize == 3
MaxBufferSize == 3
DefaultBufferSize == 2
MaxBytes == 2
MaxUncompressed == 1
UInt64Modulus == 65536
MaxRuns == 3
MaxTagNodes == 3
MaxDeltaNodes == 2
MaxRefs == 3
MaxMembers == 2
MaxVisNodes == 2
MaxGroups == 2
MaxListLen == 2
MaxFilterBlobs == 2
MaxFilterCalls == 3
MaxTags == 2
MaxChar == 2
MaxStrLen == 2
MaxTaskCalls == 4
MaxPoints == 3
MaxCoord == 1
MaxLinestrings == 2

(***************************************************************************)
(* Program constants.                                                      *)
(***************************************************************************)
WorkQueueFactor == 4
BufferQueueBase == 10
BufferQueueFactor == 10

m_max_work_queue_size == num_threads * WorkQueueFactor
m_max_buffer_queue_size == BufferQueueBase + num_threads * BufferQueueFactor

(***************************************************************************)
(* osmium::memory::Buffer.  mem identifies the memory of the buffer: 0 for *)
(* a default constructed Buffer, blob_num + 1 for the memory allocated by  *)
(* the PBFPrimitiveBlockParser of blob blob_num.  ents are the committed   *)
(* entities.                                                               *)
(***************************************************************************)
NoBuffer == [mem |-> 0, ents |-> << >>]

(***************************************************************************)
(* The blobs a file is made of: the type and the datasize of the           *)
(* BlobHeader, which payload the Blob carries, and the kinds of the groups *)
(* of its PrimitiveBlock.                                                  *)
(***************************************************************************)
HeaderBlob == [type |-> "OSMHeader", datasize |-> 1, payload |-> "raw", groups |-> << >>]
GoodBlob == [type |-> "OSMData", datasize |-> 1, payload |-> "raw", groups |-> <<"dense", "ways">>]
ZlibBlob == [type |-> "OSMData", datasize |-> 1, payload |-> "zlib", groups |-> <<"nodes">>]
NodesBlob == [type |-> "OSMData", datasize |-> 1, payload |-> "raw", groups |-> <<"dense", "nodes">>]
BadGroupBlob == [type |-> "OSMData", datasize |-> 1, payload |-> "raw", groups |-> <<"dense", "unknown">>]
LzmaBlob == [type |-> "OSMData", datasize |-> 1, payload |-> "lzma", groups |-> << >>]
ZeroSizeBlob == [type |-> "OSMData", datasize |-> 0, payload |-> "none", groups |-> << >>]
UnknownTypeBlob == [type |-> "Unknown", datasize |-> 1, payload |-> "raw", groups |-> <<"dense">>]

FirstBlobs == {HeaderBlob, GoodBlob}
DataBlobs == {GoodBlob, BadGroupBlob, LzmaBlob, ZeroSizeBlob, UnknownTypeBlob, HeaderBlob}
ReadTypeChoices == { {}, {"node"}, {"node", "way", "relation"} }

RECURSIVE SeqsUpTo(_, _)
SeqsUpTo(S, k) ==
    IF k = 0 THEN { << >> }
    ELSE LET shorter == SeqsUpTo(S, k - 1)
         IN shorter \cup { Append(s, x) : s \in { t \in shorter : Len(t) = k - 1 }, x \in S }

\* The blob with sequence number num: the header is the first blob of the file.
BlobOf(num) == file[num + 2]
NumDataBlobs == IF Len(file) = 0 THEN 0 ELSE Len(file) - 1

(***************************************************************************)
(* PBFPrimitiveBlockParser::operator().  The groups are decoded in block   *)
(* order into m_buffer; a group of none of the four kinds throws.  The     *)
(* result carries the error flag and m_buffer as it is at that moment.     *)
(***************************************************************************)
GroupItemType(kind) ==
    CASE kind = "dense" -> "node"
      [] kind = "ways" -> "way"
      [] kind = "relations" -> "relation"
      [] kind = "nodes" -> "node"
      [] OTHER -> "none"

RECURSIVE ParseGroups(_, _, _, _)
ParseGroups(groups, rt, i, ents) ==
    IF i > Len(groups) THEN [err |-> FALSE, ents |-> ents]
    ELSE IF groups[i] \notin {"dense", "ways", "relations", "nodes"}
         THEN [err |-> TRUE, ents |-> ents]
         ELSE ParseGroups(groups, rt, i + 1,
                  IF GroupItemType(groups[i]) \in rt
                  THEN Append(ents, <<groups[i], i>>)
                  ELSE ents)

\* the parser with read_types ignored
PrimitiveBlockParseAll(blob, rt) ==
    ParseGroups(blob.groups, {"node", "way", "relation"}, 1, << >>)
PrimitiveBlockParse(blob, rt) == ParseGroups(blob.groups, rt, 1, << >>)

(***************************************************************************)
(* BlobParser::operator(): whether the payload reaches handle_blob.        *)
(***************************************************************************)
BlobPayloadOk(blob) == blob.payload \in {"raw", "zlib"}

(***************************************************************************)
(* DataBlobParser::handle_blob after BlobParser::operator(): the value     *)
(* pushed for the blob, or an exception.  The buffer is pushed only when   *)
(* the parser returned.                                                    *)
(***************************************************************************)
HandleBlobPartial(blob, num, rt) ==
    IF ~BlobPayloadOk(blob) THEN [err |-> TRUE, push |-> FALSE, buffer |-> NoBuffer]
    ELSE LET r == PrimitiveBlockParse(blob, rt)
         IN [err |-> r.err, push |-> TRUE,
             buffer |-> [mem |-> num + 1, ents |-> r.ents]]

HandleBlob(blob, num, rt) ==
    IF ~BlobPayloadOk(blob) THEN [err |-> TRUE, push |-> FALSE, buffer |-> NoBuffer]
    ELSE LET r == PrimitiveBlockParse(blob, rt)
         IN IF r.err THEN [err |-> TRUE, push |-> FALSE, buffer |-> NoBuffer]
            ELSE [err |-> FALSE, push |-> TRUE,
                  buffer |-> [mem |-> num + 1, ents |-> r.ents]]

(***************************************************************************)
(* SortedQueue<T>, T = Buffer.                                             *)
(***************************************************************************)
Fill(k) == [i \in 1..k |-> NoBuffer]

\* the whole deque is searched instead of the front
empty_any(q) == \A i \in 1..Len(q) : q[i] = NoBuffer
\* empty_intern(): m_queue.front() == T()
empty_intern(q) == q[1] = NoBuffer

\* push(value, num) used as a plain FIFO queue: num is ignored
SQPushUnsorted(q, off, value, num) ==
    LET free == { i \in 1..Len(q) : \A j \in i..Len(q) : q[j] = NoBuffer }
        at == IF free = {} THEN Len(q) + 1
              ELSE CHOOSE i \in free : \A j \in free : i <= j
        q1 == IF Len(q) <= at THEN q \o Fill(at + 1 - Len(q)) ELSE q
    IN [q1 EXCEPT ![at] = value]

\* push with the deque resized to num + 1: no slot is kept behind the value
SQPushExact(q, off, value, num) ==
    LET idx == num - off
        q1 == IF Len(q) <= idx THEN q \o Fill(idx + 1 - Len(q)) ELSE q
    IN [q1 EXCEPT ![idx + 1] = value]

\* push(value, num): the deque after the push (the caller holds num >= off)
SQPush(q, off, value, num) ==
    LET idx == num - off
        q1 == IF Len(q) <= idx + 1 THEN q \o Fill(idx + 2 - Len(q)) ELSE q
    IN [q1 EXCEPT ![idx + 1] = value]

\* the three lines of a pop with pop_front() forgotten
SQPopNoPopFront(q, off) == [value |-> q[1], q |-> q, off |-> off + 1]
\* value = std::move(m_queue.front()); m_queue.pop_front(); ++m_offset;
SQPop(q, off) == [value |-> q[1], q |-> Tail(q), off |-> off + 1]

\* m_data_available.notify_one(): a caller sleeping in wait() is woken up
NotifyLost(pc) == pc
NotifyOne(pc) == IF pc = "waiting" THEN "woken" ELSE pc

(***************************************************************************)
(* osmium::io::Writer.  A memory::Buffer is its capacity and the items     *)
(* committed to it, an item its id and its size; an invalid Buffer is what *)
(* the default constructor makes.  w_output lists, in order, what the      *)
(* writer hands to m_output (write_buffer, write_end) and adds to          *)
(* m_output_queue (an exception, the end-of-data marker).                  *)
(***************************************************************************)
InvalidBuffer == [valid |-> FALSE, cap |-> 0, items |-> << >>]
NewBuffer(size) == [valid |-> TRUE, cap |-> size, items |-> << >>]

RECURSIVE SumSizes(_)
SumSizes(items) ==
    IF items = << >> THEN 0 ELSE Head(items).size + SumSizes(Tail(items))

\* Buffer::committed()
Committed(buffer) == SumSizes(buffer.items)
\* Buffer::push_back(item) does not throw buffer_is_full
Fits(buffer, item) == Committed(buffer) + item.size <= buffer.cap
PushBack(buffer, item) == [buffer EXCEPT !.items = Append(@, item)]

ItemIds(items) == [i \in 1..Len(items) |-> items[i].id]
WriteBufferEv(buffer) == [ev |-> "write_buffer", ids |-> ItemIds(buffer.items)]
WriteEndEv == [ev |-> "write_end", ids |-> << >>]
ExceptionEv == [ev |-> "exception", ids |-> << >>]
EndOfDataEv == [ev |-> "end_of_data", ids |-> << >>]

\* the members of the Writer the calls work on
WriterState ==
    [status |-> m_status, buffer |-> m_buffer, size |-> m_buffer_size,
     out |-> w_output]

\* the catch block of Writer::write
WriteFailed(w, exc) ==
    [w |-> [w EXCEPT !.out = @ \o << ExceptionEv, WriteEndEv >>,
                     !.status = "error"],
     exc |-> exc]

\* Writer::write without the test of m_status
WriteUnchecked(w, buffer, future_failed, encoder_fails) ==
    IF future_failed THEN WriteFailed(w, "write_thread")
    ELSE IF Committed(buffer) > 0
         THEN IF encoder_fails THEN WriteFailed(w, "encoder")
              ELSE [w |-> [w EXCEPT !.out = Append(@, WriteBufferEv(buffer))],
                    exc |-> "none"]
         ELSE [w |-> w, exc |-> "none"]

\* Writer::write.  future_failed: m_write_future holds an exception of the
\* write thread; encoder_fails: this call of write_buffer throws.
Write(w, buffer, future_failed, encoder_fails) ==
    IF w.status # "okay" THEN [w |-> w, exc |-> "io_error"]
    ELSE IF future_failed THEN WriteFailed(w, "write_thread")
    ELSE IF Committed(buffer) > 0
         THEN IF encoder_fails THEN WriteFailed(w, "encoder")
              ELSE [w |-> [w EXCEPT !.out = Append(@, WriteBufferEv(buffer))],
                    exc |-> "none"]
         ELSE [w |-> w, exc |-> "none"]

\* Writer::flush
Flush(w, future_failed, encoder_fails) ==
    IF w.status = "okay" /\ w.buffer.valid /\ Committed(w.buffer) > 0
    THEN Write([w EXCEPT !.buffer = NewBuffer(w.size)], w.buffer,
               future_failed, encoder_fails)
    ELSE [w |-> w, exc |-> "none"]

\* operator()(Buffer&&) with the flush left out
CallBufferNoFlush(w, buffer, future_failed, flush_fails, write_fails) ==
    Write(w, buffer, future_failed, write_fails)

\* Writer::operator()(osmium::memory::Buffer&&)
CallBuffer(w, buffer, future_failed, flush_fails, write_fails) ==
    LET f == Flush(w, future_failed, flush_fails)
    IN IF f.exc # "none" THEN f
       ELSE Write(f.w, buffer, future_failed, write_fails)

\* operator()(const Item&) without the catch of buffer_is_full
CallItemNoRetry(w, item, future_failed, flush_fails) ==
    LET w1 == IF ~w.buffer.valid THEN [w EXCEPT !.buffer = NewBuffer(w.size)] ELSE w
    IN IF Fits(w1.buffer, item)
       THEN [w |-> [w1 EXCEPT !.buffer = PushBack(@, item)], exc |-> "none"]
       ELSE [w |-> w1, exc |-> "buffer_is_full"]

\* Writer::operator()(const osmium::memory::Item&)
CallItem(w, item, future_failed, flush_fails) ==
    LET w1 == IF ~w.buffer.valid THEN [w EXCEPT !.buffer = NewBuffer(w.size)] ELSE w
    IN IF Fits(w1.buffer, item)
       THEN [w |-> [w1 EXCEPT !.buffer = PushBack(@, item)], exc |-> "none"]
       ELSE LET f == Flush(w1, future_failed, flush_fails)
            IN IF f.exc # "none" THEN f
               ELSE IF Fits(f.w.buffer, item)
                    THEN [w |-> [f.w EXCEPT !.buffer = PushBack(@, item)],
                          exc |-> "none"]
                    ELSE [w |-> f.w, exc |-> "buffer_is_full"]

\* Writer::close without the write of the internal buffer
CloseNoFlush(w, future_failed, encoder_fails, moved) ==
    IF w.status = "okay"
    THEN [w |-> [w EXCEPT !.status = "closed",
                          !.out = @ \o << WriteEndEv, EndOfDataEv >>],
          exc |-> "none"]
    ELSE [w |-> [w EXCEPT !.out = Append(@, EndOfDataEv)], exc |-> "none"]

\* Writer::close.  moved: a write_buffer that throws has moved from its
\* argument; one that returns always has.
Close(w, future_failed, encoder_fails, moved) ==
    IF w.status = "okay"
    THEN LET r == IF w.buffer.valid /\ Committed(w.buffer) > 0
                  THEN Write(w, w.buffer, future_failed, encoder_fails)
                  ELSE [w |-> w, exc |-> "none"]
             gone == /\ w.buffer.valid
                     /\ Committed(w.buffer) > 0
                     /\ r.exc = "none" \/ (r.exc = "encoder" /\ moved)
             w1 == IF gone THEN [r.w EXCEPT !.buffer = InvalidBuffer] ELSE r.w
         IN IF r.exc # "none" THEN [w |-> w1, exc |-> r.exc]
            ELSE [w |-> [w1 EXCEPT !.status = "closed",
                                   !.out = @ \o << WriteEndEv, EndOfDataEv >>],
                  exc |-> "none"]
    ELSE [w |-> [w EXCEPT !.out = Append(@, EndOfDataEv)], exc |-> "none"]

\* Writer::Writer: the write thread runs, the header is written
InitWriter ==
    /\ m_status = "okay"
    /\ m_buffer = InvalidBuffer
    /\ m_buffer_size = DefaultBufferSize
    /\ w_thread = "running"
    /\ w_output = << >>
    /\ w_ret = [op |-> "none", exc |-> "none"]
    /\ w_next = 0
    /\ w_accepted = << >>

(***************************************************************************)
(* BlobParser::operator() on its own.  A Blob is what ParseFromArray makes *)
(* of the input (parse_ok: it returns true): which payloads are set, the   *)
(* bytes of raw, what zlib_data inflates to (zlib_valid: it is a zlib      *)
(* stream at all) and raw_size.  Sizes are counted in bytes of the model,  *)
(* MaxUncompressed standing for OSMPBF::max_uncompressed_blob_size.        *)
(***************************************************************************)
ByteSeqs == SeqsUpTo({1, 2}, MaxBytes)
PbfBlobs ==
    [parse_ok : BOOLEAN, has_raw : BOOLEAN, raw : ByteSeqs,
     has_zlib_data : BOOLEAN, zlib_valid : BOOLEAN, zlib_content : ByteSeqs,
     raw_size : (-1)..(MaxBytes + 1), has_lzma_data : BOOLEAN]
NoBlob ==
    [parse_ok |-> FALSE, has_raw |-> FALSE, raw |-> << >>,
     has_zlib_data |-> FALSE, zlib_valid |-> FALSE, zlib_content |-> << >>,
     raw_size |-> 0, has_lzma_data |-> FALSE]

\* how a call ends: in handle_blob(data, Len(data)), in an exception, or in
\* abort() by the assert
NoResult == [outcome |-> "none", data |-> << >>, what |-> "none"]
HandleBlobCalled(data) == [outcome |-> "handle_blob", data |-> data, what |-> "none"]
Throws(what) == [outcome |-> "throw", data |-> << >>, what |-> what]
Aborts == [outcome |-> "abort", data |-> << >>, what |-> "assert"]
NoCall == [blob |-> NoBlob, result |-> NoResult]

\* unsigned long raw_size = pbf_blob.raw_size(): a negative int32 becomes a
\* value above every size there is
TooLarge == MaxBytes + MaxUncompressed + 2
RawSizeUL(raw_size) == IF raw_size < 0 THEN TooLarge ELSE raw_size

\* zlib uncompress(dest, &destLen, source, sourceLen)
Uncompress(dest_len, valid, content) ==
    IF ~valid THEN [rc |-> "Z_DATA_ERROR", len |-> dest_len, data |-> << >>]
    ELSE IF Len(content) > dest_len
         THEN [rc |-> "Z_BUF_ERROR", len |-> dest_len, data |-> << >>]
         ELSE [rc |-> "Z_OK", len |-> Len(content), data |-> content]

\* operator() with the comparison of the inflated size left out
BlobParserCallNoSizeCheck(blob, ndebug) ==
    IF ~blob.parse_ok THEN Throws("failed to parse blob")
    ELSE IF blob.has_raw THEN HandleBlobCalled(blob.raw)
    ELSE IF blob.has_zlib_data
         THEN LET raw_size == RawSizeUL(blob.raw_size)
              IN IF ~ndebug /\ raw_size > MaxUncompressed THEN Aborts
                 ELSE IF raw_size = TooLarge THEN Throws("bad_alloc")
                 ELSE LET u == Uncompress(raw_size, blob.zlib_valid, blob.zlib_content)
                      IN IF u.rc # "Z_OK"
                         THEN Throws("zlib error")
                         ELSE HandleBlobCalled(u.data)
    ELSE IF blob.has_lzma_data THEN Throws("lzma blobs not implemented")
    ELSE Throws("Blob contains no data")

\* BlobParser::operator().  ndebug: the build has NDEBUG, the assert is
\* compiled out.
BlobParserCall(blob, ndebug) ==
    IF ~blob.parse_ok THEN Throws("failed to parse blob")
    ELSE IF blob.has_raw THEN HandleBlobCalled(blob.raw)
    ELSE IF blob.has_zlib_data
         THEN LET raw_size == RawSizeUL(blob.raw_size)
              IN IF ~ndebug /\ raw_size > MaxUncompressed THEN Aborts
                 ELSE IF raw_size = TooLarge THEN Throws("bad_alloc")
                 ELSE LET u == Uncompress(raw_size, blob.zlib_valid, blob.zlib_content)
                      IN IF u.rc # "Z_OK" \/ blob.raw_size # u.len
                         THEN Throws("zlib error")
                         ELSE HandleBlobCalled(u.data)
    ELSE IF blob.has_lzma_data THEN Throws("lzma blobs not implemented")
    ELSE Throws("Blob contains no data")

(***************************************************************************)
(* PBFPrimitiveBlockParser on its own.  A block is what ParseFromArray     *)
(* makes of the data (parse_ok: it returns true); the repeated fields are  *)
(* sequences, field(i) of the code is element i + 1.  The Buffer that is   *)
(* built is the sequence of the committed entities.                        *)
(***************************************************************************)
\* Info and DenseInfo when has_info() / has_denseinfo() is false
NoInfo ==
    [version |-> 0, timestamp |-> 0, changeset |-> 0, uid |-> 0,
     user_sid |-> 0, has_visible |-> FALSE, visible |-> FALSE]
\* DenseNodes when has_dense() is false
NoDense ==
    [id |-> << >>, lat |-> << >>, lon |-> << >>, has_denseinfo |-> FALSE,
     denseinfo |-> [version |-> << >>, timestamp |-> << >>,
                    changeset |-> << >>, uid |-> << >>, user_sid |-> << >>,
                    visible |-> << >>],
     keys_vals |-> << >>]

\* osmium::Location: the default constructed Location is undefined
UndefinedLocation == [valid |-> FALSE, x |-> 0, y |-> 0]
Location(x, y) == [valid |-> TRUE, x |-> x, y |-> y]

\* the object a NodeBuilder, WayBuilder or RelationBuilder starts with
NewObject(type) ==
    [type |-> type, id |-> 0, version |-> 0, changeset |-> 0,
     timestamp |-> 0, uid |-> 0, visible |-> TRUE, user |-> "",
     location |-> UndefinedLocation, tags |-> << >>, nodes |-> << >>,
     members |-> << >>]

\* Object::uid_from_signed
uid_from_signed(uid) == IF uid < 0 THEN 0 ELSE uid

\* osmpbf_membertype_to_item_type
osmpbf_membertype_to_item_type(mt) ==
    CASE mt = 0 -> "node" [] mt = 1 -> "way" [] OTHER -> "relation"

\* x / y of C++ for y > 0: the quotient is truncated toward zero
CppDivFloor(x, y) == x \div y
CppDiv(x, y) == IF x >= 0 THEN x \div y ELSE -((-x) \div y)

\* uint64_t arithmetic and the conversion of a uint64_t to object_id_type;
\* UInt64Modulus stands for 2^64
ToUInt64(x) == x % UInt64Modulus
ToInt64(u) == IF 2 * u >= UInt64Modulus THEN u - UInt64Modulus ELSE u

\* OSMPBF::lonlat_resolution / osmium::Location::coordinate_precision
resolution_convert == 100

\* m_stringtable->s(idx)
stringtable_s(p, idx) == p.m_stringtable[idx + 1]

\* a repeated field read at idx: beyond its size the read is undefined and
\* may yield any value p.oob
FieldAt(p, field, idx) == IF idx < Len(field) THEN field[idx + 1] ELSE p.oob

\* pbf_timestamp * m_date_factor
DecodeTimestampNoFactor(p, pbf_timestamp) == pbf_timestamp
DecodeTimestamp(p, pbf_timestamp) == pbf_timestamp * p.m_date_factor

\* (raw * m_granularity + offset) / resolution_convert
DecodeCoordinateUnscaled(p, raw, offset) == raw * p.m_granularity + offset
DecodeCoordinate(p, raw, offset) ==
    CppDiv(raw * p.m_granularity + offset, resolution_convert)

\* "if (node.visible()) node.location(Location(...))"
SetLocationAlways(p, obj, lon, lat) ==
    [obj EXCEPT !.location = Location(DecodeCoordinate(p, lon, p.m_lon_offset),
                                      DecodeCoordinate(p, lat, p.m_lat_offset))]
SetLocation(p, obj, lon, lat) ==
    IF obj.visible
    THEN [obj EXCEPT !.location = Location(DecodeCoordinate(p, lon, p.m_lon_offset),
                                           DecodeCoordinate(p, lat, p.m_lat_offset))]
    ELSE obj

\* "if (pbf.has_info()) { ... } else { builder.add_user(""); }" of the
\* nodes, ways and relations that are not dense
SetInfo(p, obj, has_info, info) ==
    IF has_info
    THEN [obj EXCEPT !.version = info.version,
                     !.changeset = info.changeset,
                     !.timestamp = DecodeTimestamp(p, info.timestamp),
                     !.uid = uid_from_signed(info.uid),
                     !.visible = IF info.has_visible THEN info.visible ELSE TRUE,
                     !.user = stringtable_s(p, info.user_sid)]
    ELSE [obj EXCEPT !.user = ""]

\* "if (pbf.keys_size() > 0) { ... tl_builder.add_tag(...) ... }"
SetTags(p, obj, keys, vals) ==
    [obj EXCEPT !.tags = [t \in 1..Len(keys) |->
                             << stringtable_s(p, keys[t]),
                                stringtable_s(p, FieldAt(p, vals, t - 1)) >>]]

\* the value of the uint64_t "ref" after it was added refs(0) .. refs(k-1)
RefAbsolute(deltas, k) == IF k = 0 THEN 0 ELSE ToUInt64(deltas[k])
RECURSIVE Ref(_, _)
Ref(deltas, k) ==
    IF k = 0 THEN 0 ELSE ToUInt64(Ref(deltas, k - 1) + deltas[k])

\* PBFPrimitiveBlockParser::parse_node_group, one iteration
ParseNode(p, pbf_node) ==
    LET node1 == [NewObject("node") EXCEPT !.id = pbf_node.id]
        node2 == SetInfo(p, node1, pbf_node.has_info, pbf_node.info)
        node3 == SetLocation(p, node2, pbf_node.lon, pbf_node.lat)
    IN  SetTags(p, node3, pbf_node.keys, pbf_node.vals)

\* PBFPrimitiveBlockParser::parse_way_group, one iteration
ParseWay(p, pbf_way) ==
    LET way1 == [NewObject("way") EXCEPT !.id = pbf_way.id]
        way2 == SetInfo(p, way1, pbf_way.has_info, pbf_way.info)
        way3 == [way2 EXCEPT !.nodes =
                    [i \in 1..Len(pbf_way.refs) |-> ToInt64(Ref(pbf_way.refs, i))]]
    IN  SetTags(p, way3, pbf_way.keys, pbf_way.vals)

\* the role of member i (counted from 1) of a relation
MemberRoleSummed(p, pbf_relation, i) ==
    stringtable_s(p, Ref(pbf_relation.roles_sid, i))
MemberRole(p, pbf_relation, i) ==
    stringtable_s(p, FieldAt(p, pbf_relation.roles_sid, i - 1))

\* PBFPrimitiveBlockParser::parse_relation_group, one iteration
ParseRelation(p, pbf_relation) ==
    LET relation1 == [NewObject("relation") EXCEPT !.id = pbf_relation.id]
        relation2 == SetInfo(p, relation1, pbf_relation.has_info, pbf_relation.info)
        relation3 ==
            [relation2 EXCEPT !.members =
                [i \in 1..Len(pbf_relation.types) |->
                    [type |-> osmpbf_membertype_to_item_type(pbf_relation.types[i]),
                     ref |-> ToInt64(Ref(pbf_relation.memids, i)),
                     role |-> MemberRole(p, pbf_relation, i)]]]
    IN  SetTags(p, relation3, pbf_relation.keys, pbf_relation.vals)

\* PBFPrimitiveBlockParser::add_tags: the tags added and the value returned
RECURSIVE add_tags_while(_, _, _, _)
add_tags_while(p, keys_vals, pos, tags) ==
    IF pos >= Len(keys_vals) THEN [pos |-> pos, tags |-> tags]
    ELSE LET tag_key_pos == keys_vals[pos + 1] IN
         IF tag_key_pos = 0 THEN [pos |-> pos + 1, tags |-> tags]
         ELSE add_tags_while(p, keys_vals, pos + 2,
                  Append(tags, << stringtable_s(p, tag_key_pos),
                                  stringtable_s(p, FieldAt(p, keys_vals, pos + 1)) >>))

add_tags(p, dense, pos) ==
    IF pos >= Len(dense.keys_vals) THEN [pos |-> pos, tags |-> << >>]
    ELSE IF dense.keys_vals[pos + 1] = 0 THEN [pos |-> pos + 1, tags |-> << >>]
    ELSE add_tags_while(p, dense.keys_vals, pos, << >>)

\* the locals of parse_dense_node_group before the loop
DenseStart ==
    [last_dense_id |-> 0, last_dense_latitude |-> 0, last_dense_longitude |-> 0,
     last_dense_uid |-> 0, last_dense_user_sid |-> 0, last_dense_changeset |-> 0,
     last_dense_timestamp |-> 0, last_dense_tag |-> 0, nodes |-> << >>]

\* the tag cursor an iteration of parse_dense_node_group starts from
TagCursorRestart(last) == 0
TagCursor(last) == last.last_dense_tag

\* one iteration of the loop of parse_dense_node_group, i counted from 0
ParseDenseNode(p, dense, i, last) ==
    LET di == dense.denseinfo
        id == last.last_dense_id + dense.id[i + 1]
        lat == last.last_dense_latitude + FieldAt(p, dense.lat, i)
        lon == last.last_dense_longitude + FieldAt(p, dense.lon, i)
        changeset == IF dense.has_denseinfo
                     THEN last.last_dense_changeset + FieldAt(p, di.changeset, i)
                     ELSE last.last_dense_changeset
        timestamp == IF dense.has_denseinfo
                     THEN last.last_dense_timestamp + FieldAt(p, di.timestamp, i)
                     ELSE last.last_dense_timestamp
        uid == IF dense.has_denseinfo
               THEN last.last_dense_uid + FieldAt(p, di.uid, i)
               ELSE last.last_dense_uid
        user_sid == IF dense.has_denseinfo
                    THEN last.last_dense_user_sid + FieldAt(p, di.user_sid, i)
                    ELSE last.last_dense_user_sid
        visible == IF dense.has_denseinfo /\ Len(di.visible) > 0
                   THEN di.visible[i + 1]
                   ELSE TRUE
        node1 == [NewObject("node") EXCEPT !.id = id]
        node2 == IF dense.has_denseinfo
                 THEN [node1 EXCEPT !.version = FieldAt(p, di.version, i),
                                    !.changeset = changeset,
                                    !.timestamp = DecodeTimestamp(p, timestamp),
                                    !.uid = uid_from_signed(uid),
                                    !.visible = visible,
                                    !.user = stringtable_s(p, user_sid)]
                 ELSE [node1 EXCEPT !.user = ""]
        node3 == SetLocation(p, node2, lon, lat)
        added == add_tags(p, dense, TagCursor(last))
        node4 == [node3 EXCEPT !.tags = added.tags]
    IN  [last_dense_id |-> id, last_dense_latitude |-> lat,
         last_dense_longitude |-> lon, last_dense_uid |-> uid,
         last_dense_user_sid |-> user_sid, last_dense_changeset |-> changeset,
         last_dense_timestamp |-> timestamp, last_dense_tag |-> added.pos,
         nodes |-> Append(last.nodes, node4)]

\* PBFPrimitiveBlockParser::parse_dense_node_group: the locals, with the
\* nodes committed, after the first k iterations
RECURSIVE parse_dense_node_group(_, _, _)
parse_dense_node_group(p, dense, k) ==
    IF k = 0 THEN DenseStart
    ELSE ParseDenseNode(p, dense, k - 1, parse_dense_node_group(p, dense, k - 1))

\* how operator() ends: it returns m_buffer (outcome "buffer") or it throws
PBResult(outcome, ents, what) == [outcome |-> outcome, ents |-> ents, what |-> what]
\* the parser before operator() is called, here without a block
NoDecode ==
    [block |-> [parse_ok |-> FALSE],
     result |-> PBResult("none", << >>, "none")]

\* which parse_*_group the if-chain of operator() picks for a group
GroupKindWaysFirst(group) ==
    IF Len(group.ways) # 0 THEN "ways"
    ELSE IF group.has_dense THEN "dense"
    ELSE IF Len(group.relations) # 0 THEN "relations"
    ELSE IF Len(group.nodes) # 0 THEN "nodes"
    ELSE "unknown"
GroupKind(group) ==
    IF group.has_dense THEN "dense"
    ELSE IF Len(group.ways) # 0 THEN "ways"
    ELSE IF Len(group.relations) # 0 THEN "relations"
    ELSE IF Len(group.nodes) # 0 THEN "nodes"
    ELSE "unknown"

\* the entities one group adds to m_buffer: nothing unless m_read_types
\* has the flag of its kind, else one entity committed per element
ParseGroup(p, group) ==
    LET kind == GroupKind(group) IN
    IF GroupItemType(kind) \notin p.m_read_types THEN << >>
    ELSE CASE kind = "dense" ->
                parse_dense_node_group(p, group.dense, Len(group.dense.id)).nodes
           [] kind = "ways" ->
                [i \in 1..Len(group.ways) |-> ParseWay(p, group.ways[i])]
           [] kind = "relations" ->
                [i \in 1..Len(group.relations) |-> ParseRelation(p, group.relations[i])]
           [] OTHER ->
                [i \in 1..Len(group.nodes) |-> ParseNode(p, group.nodes[i])]

\* the loop of operator() over the first k groups
RECURSIVE ParseGroupLoopReversed(_, _, _)
ParseGroupLoopReversed(p, groups, k) ==
    IF k = 0 THEN PBResult("buffer", << >>, "none")
    ELSE LET before == ParseGroupLoopReversed(p, groups, k - 1) IN
         IF before.outcome = "throw" THEN before
         ELSE IF GroupKind(groups[k]) = "unknown"
              THEN PBResult("throw", << >>, "Group of unknown type.")
              ELSE PBResult("buffer", ParseGroup(p, groups[k]) \o before.ents, "none")
RECURSIVE ParseGroupLoop(_, _, _)
ParseGroupLoop(p, groups, k) ==
    IF k = 0 THEN PBResult("buffer", << >>, "none")
    ELSE LET before == ParseGroupLoop(p, groups, k - 1) IN
         IF before.outcome = "throw" THEN before
         ELSE IF GroupKind(groups[k]) = "unknown"
              THEN PBResult("throw", << >>, "Group of unknown type.")
              ELSE PBResult("buffer", before.ents \o ParseGroup(p, groups[k]), "none")

\* PBFPrimitiveBlockParser::operator(): p is the parser with the members
\* set from the block, and with what a read beyond a field yields
PrimitiveBlockParserCall(block, rt, oob) ==
    IF ~block.parse_ok
    THEN PBResult("throw", << >>, "Failed to parse PrimitiveBlock.")
    ELSE LET p == [m_stringtable |-> block.stringtable,
                   m_lon_offset |-> block.lon_offset,
                   m_lat_offset |-> block.lat_offset,
                   m_date_factor |-> CppDiv(block.date_granularity, 1000),
                   m_granularity |-> block.granularity,
                   m_read_types |-> rt,
                   oob |-> oob]
         IN  ParseGroupLoop(p, block.primitivegroup, Len(block.primitivegroup))

(***************************************************************************)
(* The state after construction of PBFInput (before read()).               *)
(***************************************************************************)
InitPipeline ==
    /\ fd_pos = 0
    /\ reader_pc = "idle"
    /\ n = 0
    /\ work_queue_size = 0
    /\ m_done = FALSE
    /\ m_pending_jobs = 0
    /\ work_queue = << >>
    /\ running = {}
    /\ failed = {}
    /\ m_queue = <<NoBuffer>>
    /\ m_offset = 0
    /\ delivered = << >>
    /\ aborted = FALSE
    /\ sq_pushed = << >>
    /\ sq_out = NoBuffer
    /\ sq_ret = [op |-> "none", val |-> FALSE]
    /\ InitWriter
    /\ tl_builder = [state |-> "none", data |-> << >>, size |-> 0,
                     recorded |-> 0, calls |-> << >>]
    /\ checked_task = [state |-> "none", task |-> "none", threw |-> FALSE,
                       m_future_valid |-> FALSE, joinable |-> FALSE,
                       pc |-> "idle", in_destructor |-> FALSE, rets |-> << >>]
    /\ wkb_factory = [state |-> "none", m_ewkb |-> FALSE, m_hex |-> FALSE,
                      m_data |-> << >>, m_points |-> 0, started |-> FALSE,
                      added |-> << >>, finished |-> 0,
                      ret |-> [op |-> "none", outcome |-> "returned", data |-> << >>]]

Init ==
    /\ file \in { <<h>> \o d : h \in FirstBlobs, d \in SeqsUpTo(DataBlobs, MaxBlobs) }
    /\ num_threads \in 0..MaxThreads
    /\ read_types \in ReadTypeChoices
    /\ calls_left \in {MaxCalls}
    /\ cons_pc = "init"
    /\ bp_call = NoCall
    /\ pb_call = NoDecode
    /\ InitPipeline

\* what the pipeline never changes
const_vars == << file, num_threads, read_types, sq_pushed, sq_out, sq_ret,
                 w_vars, bp_call, pb_call, tl_builder, checked_task,
                 wkb_factory >>

(***************************************************************************)
(* The caller.                                                             *)
(***************************************************************************)
\* read_blob_header with the type of the BlobHeader not looked at
TypeAny(blob, expected_type) == TRUE
\* read_blob_header: !std::strcmp(m_blob_header.type().c_str(), expected_type)
TypeExpected(blob, expected_type) == blob.type = expected_type

\* PBFInput::read: the header blob, then the framing thread is started
Read ==
    /\ ~aborted
    /\ cons_pc = "init"
    /\ IF /\ Len(file) >= 1
          /\ TypeExpected(file[1], "OSMHeader")
          /\ file[1].datasize > 0
          /\ BlobPayloadOk(file[1])
       THEN /\ fd_pos' = 1
            /\ cons_pc' = "idle"
            /\ reader_pc' = IF read_types # {} THEN "read" ELSE reader_pc
       ELSE /\ cons_pc' = "read_failed"
            /\ UNCHANGED << fd_pos, reader_pc >>
    /\ UNCHANGED << const_vars, calls_left, n, work_queue_size, m_done,
                    m_pending_jobs, work_queue, running, failed, m_queue,
                    m_offset, delivered, aborted >>

\* the condition of next_buffer() with m_pending_jobs ignored
MoreDataDoneOnly(done, pending) == ~done
\* if (!m_done || m_pending_jobs != 0) of next_buffer()
MoreData(done, pending) == ~done \/ pending # 0

\* wait_and_pop once the predicate holds, then --m_pending_jobs and return
PopFront ==
    LET r == SQPop(m_queue, m_offset)
    IN /\ delivered' = Append(delivered, r.value)
       /\ m_queue' = r.q
       /\ m_offset' = r.off
       /\ m_pending_jobs' = m_pending_jobs - 1
       /\ cons_pc' = "idle"

\* PBFInput::next_buffer up to the return or to the wait in wait_and_pop
NextBuffer ==
    /\ ~aborted
    /\ cons_pc = "idle"
    /\ calls_left > 0
    /\ calls_left' = calls_left - 1
    /\ IF MoreData(m_done, m_pending_jobs)
       THEN IF ~empty_intern(m_queue)
            THEN PopFront
            ELSE /\ cons_pc' = "waiting"
                 /\ UNCHANGED << delivered, m_queue, m_offset, m_pending_jobs >>
       ELSE /\ delivered' = Append(delivered, NoBuffer)
            /\ UNCHANGED << cons_pc, m_queue, m_offset, m_pending_jobs >>
    /\ UNCHANGED << const_vars, fd_pos, reader_pc, n, work_queue_size, m_done,
                    work_queue, running, failed, aborted >>

\* the caller, notified in wait_and_pop, holds the lock again and re-checks
WakeUp ==
    /\ ~aborted
    /\ cons_pc = "woken"
    /\ IF ~empty_intern(m_queue)
       THEN PopFront
       ELSE /\ cons_pc' = "waiting"
            /\ UNCHANGED << delivered, m_queue, m_offset, m_pending_jobs >>
    /\ UNCHANGED << const_vars, calls_left, fd_pos, reader_pc, n,
                    work_queue_size, m_done, work_queue, running, failed, aborted >>

\* PBFInput::~PBFInput: m_done = true ...
Destroy ==
    /\ ~aborted
    /\ cons_pc \in {"idle", "read_failed"}
    /\ m_done' = TRUE
    /\ cons_pc' = "joining"
    /\ UNCHANGED << const_vars, calls_left, fd_pos, reader_pc, n,
                    work_queue_size, m_pending_jobs, work_queue, running,
                    failed, m_queue, m_offset, delivered, aborted >>

\* ... m_reader.join()
Join ==
    /\ ~aborted
    /\ cons_pc = "joining"
    /\ reader_pc \in {"idle", "finished"}
    /\ cons_pc' = "destroyed"
    /\ UNCHANGED << const_vars, calls_left, fd_pos, reader_pc, n,
                    work_queue_size, m_done, m_pending_jobs, work_queue,
                    running, failed, m_queue, m_offset, delivered, aborted >>

(***************************************************************************)
(* The framing thread: PBFInput::parse_osm_data.                           *)
(***************************************************************************)
\* the step with ++m_pending_jobs left out
ReaderReadBlobNoCount ==
    /\ ~aborted
    /\ reader_pc = "read"
    /\ IF fd_pos >= Len(file)
       THEN /\ reader_pc' = "set_done"
            /\ UNCHANGED << fd_pos, aborted >>
       ELSE IF ~TypeExpected(file[fd_pos + 1], "OSMData")
            THEN /\ aborted' = TRUE
                 /\ UNCHANGED << fd_pos, reader_pc >>
            ELSE IF file[fd_pos + 1].datasize = 0
            THEN /\ reader_pc' = "set_done"
                 /\ UNCHANGED << fd_pos, aborted >>
            ELSE /\ fd_pos' = fd_pos + 1
                 /\ reader_pc' = "dispatch"
                 /\ UNCHANGED aborted
    /\ UNCHANGED << const_vars, calls_left, n, work_queue_size, m_done,
                    m_pending_jobs, work_queue, running, failed, m_queue,
                    m_offset, cons_pc, delivered >>

\* the step with a datasize of 0 taken for a blob like any other
ReaderReadBlobAnySize ==
    /\ ~aborted
    /\ reader_pc = "read"
    /\ IF fd_pos >= Len(file)
       THEN /\ reader_pc' = "set_done"
            /\ UNCHANGED << fd_pos, m_pending_jobs, aborted >>
       ELSE IF ~TypeExpected(file[fd_pos + 1], "OSMData")
            THEN /\ aborted' = TRUE
                 /\ UNCHANGED << fd_pos, m_pending_jobs, reader_pc >>
            ELSE /\ fd_pos' = fd_pos + 1
                 /\ m_pending_jobs' = m_pending_jobs + 1
                 /\ reader_pc' = "dispatch"
                 /\ UNCHANGED aborted
    /\ UNCHANGED << const_vars, calls_left, n, work_queue_size, m_done,
                    work_queue, running, failed, m_queue, m_offset, cons_pc,
                    delivered >>

\* read_blob_header(fd(), "OSMData"), DataBlobParser(...), ++m_pending_jobs
ReaderReadBlob ==
    /\ ~aborted
    /\ reader_pc = "read"
    /\ IF fd_pos >= Len(file)
       THEN \* EOF: read_blob_header returns 0, the loop ends
            /\ reader_pc' = "set_done"
            /\ UNCHANGED << fd_pos, m_pending_jobs, aborted >>
       ELSE IF ~TypeExpected(file[fd_pos + 1], "OSMData")
            THEN \* the exception leaves the thread function
                 /\ aborted' = TRUE
                 /\ UNCHANGED << fd_pos, m_pending_jobs, reader_pc >>
            ELSE IF file[fd_pos + 1].datasize = 0
            THEN \* read_blob_header returns datasize() = 0, the loop ends
                 /\ reader_pc' = "set_done"
                 /\ UNCHANGED << fd_pos, m_pending_jobs, aborted >>
            ELSE /\ fd_pos' = fd_pos + 1
                 /\ m_pending_jobs' = m_pending_jobs + 1
                 /\ reader_pc' = "dispatch"
                 /\ UNCHANGED aborted
    /\ UNCHANGED << const_vars, calls_left, n, work_queue_size, m_done,
                    work_queue, running, failed, m_queue, m_offset, cons_pc,
                    delivered >>

\* data_blob_parser() in this thread, or m_thread_pool.submit(data_blob_parser)
ReaderDispatch ==
    /\ ~aborted
    /\ reader_pc = "dispatch"
    /\ IF num_threads = 0
       THEN LET r == HandleBlob(BlobOf(n), n, read_types)
            IN /\ IF r.push
                  THEN /\ m_queue' = SQPush(m_queue, m_offset, r.buffer, n)
                       /\ cons_pc' = NotifyOne(cons_pc)
                  ELSE UNCHANGED << m_queue, cons_pc >>
               /\ IF r.err
                  THEN /\ failed' = failed \cup {n}
                       /\ aborted' = TRUE
                       /\ UNCHANGED << n, reader_pc >>
                  ELSE /\ n' = n + 1
                       /\ reader_pc' = "wait_buf"
                       /\ UNCHANGED << failed, aborted >>
               /\ UNCHANGED << work_queue, work_queue_size >>
       ELSE /\ work_queue' = Append(work_queue, n)
            /\ work_queue_size' = Len(work_queue')
            /\ reader_pc' = "wait_work"
            /\ UNCHANGED << n, failed, aborted, m_queue, cons_pc >>
    /\ UNCHANGED << const_vars, calls_left, fd_pos, m_done, m_pending_jobs,
                    running, m_offset, delivered >>

\* the work queue test without its effect
WorkQueueNeverFull(size) == FALSE
\* work_queue_size >= m_max_work_queue_size
WorkQueueFull(size) == size >= m_max_work_queue_size

\* the wait after the submit with ++n left out
ReaderWaitWorkSameNumber ==
    /\ ~aborted
    /\ reader_pc = "wait_work"
    /\ IF ~m_done /\ WorkQueueFull(work_queue_size)
       THEN /\ work_queue_size' = Len(work_queue)
            /\ UNCHANGED reader_pc
       ELSE /\ work_queue_size' = 0
            /\ reader_pc' = "wait_buf"
    /\ UNCHANGED << const_vars, calls_left, fd_pos, n, m_done, m_pending_jobs,
                    work_queue, running, failed, m_queue, m_offset, cons_pc,
                    delivered, aborted >>

\* while (!m_done && work_queue_size >= m_max_work_queue_size) ...; ++n
ReaderWaitWork ==
    /\ ~aborted
    /\ reader_pc = "wait_work"
    /\ IF ~m_done /\ WorkQueueFull(work_queue_size)
       THEN /\ work_queue_size' = Len(work_queue)
            /\ UNCHANGED << n, reader_pc >>
       ELSE /\ n' = n + 1
            /\ work_queue_size' = 0
            /\ reader_pc' = "wait_buf"
    /\ UNCHANGED << const_vars, calls_left, fd_pos, m_done, m_pending_jobs,
                    work_queue, running, failed, m_queue, m_offset, cons_pc,
                    delivered, aborted >>

\* the reorder queue test without its effect
BufferQueueNeverFull(size) == FALSE
\* m_queue.size() > m_max_buffer_queue_size
BufferQueueFull(size) == size > m_max_buffer_queue_size

\* the second wait with the done flag left out of its condition
ReaderWaitBufIgnoreDone ==
    /\ ~aborted
    /\ reader_pc = "wait_buf"
    /\ IF BufferQueueFull(Len(m_queue))
       THEN UNCHANGED reader_pc
       ELSE reader_pc' = "check_done"
    /\ UNCHANGED << const_vars, calls_left, fd_pos, n, work_queue_size, m_done,
                    m_pending_jobs, work_queue, running, failed, m_queue,
                    m_offset, cons_pc, delivered, aborted >>

\* while (!m_done && m_queue.size() > m_max_buffer_queue_size) sleep
ReaderWaitBuf ==
    /\ ~aborted
    /\ reader_pc = "wait_buf"
    /\ IF ~m_done /\ BufferQueueFull(Len(m_queue))
       THEN UNCHANGED reader_pc
       ELSE reader_pc' = "check_done"
    /\ UNCHANGED << const_vars, calls_left, fd_pos, n, work_queue_size, m_done,
                    m_pending_jobs, work_queue, running, failed, m_queue,
                    m_offset, cons_pc, delivered, aborted >>

\* if (m_done) return;
ReaderCheckDone ==
    /\ ~aborted
    /\ reader_pc = "check_done"
    /\ reader_pc' = IF m_done THEN "finished" ELSE "read"
    /\ UNCHANGED << const_vars, calls_left, fd_pos, n, work_queue_size, m_done,
                    m_pending_jobs, work_queue, running, failed, m_queue,
                    m_offset, cons_pc, delivered, aborted >>

\* m_done = true; at the end of parse_osm_data
ReaderSetDone ==
    /\ ~aborted
    /\ reader_pc = "set_done"
    /\ m_done' = TRUE
    /\ reader_pc' = "finished"
    /\ UNCHANGED << const_vars, calls_left, fd_pos, n, work_queue_size,
                    m_pending_jobs, work_queue, running, failed, m_queue,
                    m_offset, cons_pc, delivered, aborted >>

(***************************************************************************)
(* The workers of m_thread_pool.                                           *)
(***************************************************************************)
\* a free worker takes the oldest task of the work queue
WorkerTake ==
    /\ ~aborted
    /\ work_queue # << >>
    /\ Cardinality(running) < num_threads
    /\ running' = running \cup {Head(work_queue)}
    /\ work_queue' = Tail(work_queue)
    /\ UNCHANGED << const_vars, calls_left, fd_pos, reader_pc, n,
                    work_queue_size, m_done, m_pending_jobs, failed, m_queue,
                    m_offset, cons_pc, delivered, aborted >>

\* the worker runs DataBlobParser::operator() of its task to the end; an
\* exception of the task stays in the pool
WorkerRun(k) ==
    /\ ~aborted
    /\ k \in running
    /\ running' = running \ {k}
    /\ LET r == HandleBlob(BlobOf(k), k, read_types)
       IN /\ IF r.push
             THEN /\ m_queue' = SQPush(m_queue, m_offset, r.buffer, k)
                  /\ cons_pc' = NotifyOne(cons_pc)
             ELSE UNCHANGED << m_queue, cons_pc >>
          /\ failed' = IF r.err THEN failed \cup {k} ELSE failed
    /\ UNCHANGED << const_vars, calls_left, fd_pos, reader_pc, n,
                    work_queue_size, m_done, m_pending_jobs, work_queue,
                    m_offset, delivered, aborted >>

WorkerStep == \E k \in running : WorkerRun(k)

Next ==
    \/ Read
    \/ NextBuffer
    \/ WakeUp
    \/ Destroy
    \/ Join
    \/ ReaderReadBlob
    \/ ReaderDispatch
    \/ ReaderWaitWork
    \/ ReaderWaitBuf
    \/ ReaderCheckDone
    \/ ReaderSetDone
    \/ WorkerTake
    \/ WorkerStep

Spec == Init /\ [][Next]_vars

(***************************************************************************)
(* The pipeline on a long well-formed file, for the back-pressure of the   *)
(* framing thread: the caller makes at most MaxCallsBP calls and stops.    *)
(***************************************************************************)
RepeatBlob(blob, k) == [i \in 1..k |-> blob]

InitBP ==
    /\ file \in { <<HeaderBlob>> \o RepeatBlob(GoodBlob, k) : k \in {1, NumBlobsBP} }
    /\ num_threads \in 0..MaxThreads
    /\ read_types = {"node"}
    /\ calls_left \in 0..MaxCallsBP
    /\ cons_pc = "init"
    /\ bp_call = NoCall
    /\ pb_call = NoDecode
    /\ InitPipeline

SpecBP == InitBP /\ [][Next]_vars

(***************************************************************************)
(* The pipeline on files of blobs with nodes only and blobs with nodes and *)
(* ways, read for one kind of entity or two.                               *)
(***************************************************************************)
InitFilter ==
    /\ file \in { <<HeaderBlob>> \o d : d \in SeqsUpTo({NodesBlob, GoodBlob}, MaxFilterBlobs) }
    /\ num_threads \in 0..MaxThreadsJoin
    /\ read_types \in { {"way"}, {"node", "relation"} }
    /\ calls_left = MaxFilterCalls
    /\ cons_pc = "init"
    /\ bp_call = NoCall
    /\ pb_call = NoDecode
    /\ InitPipeline

SpecFilter == InitFilter /\ [][Next]_vars

(***************************************************************************)
(* The same pipeline with fewer workers, for the destructor: the framing   *)
(* thread is scheduled and its sleep_for returns; join() returns once the  *)
(* thread has ended.                                                       *)
(***************************************************************************)
InitJoin ==
    /\ file \in { <<HeaderBlob>> \o RepeatBlob(GoodBlob, k) : k \in {1, NumBlobsJoin} }
    /\ num_threads \in 0..MaxThreadsJoin
    /\ read_types = {"node"}
    /\ calls_left \in 0..MaxCallsBP
    /\ cons_pc = "init"
    /\ bp_call = NoCall
    /\ pb_call = NoDecode
    /\ InitPipeline

SpecJoin == InitJoin /\ [][Next]_vars

FairSpecJoin ==
    /\ SpecJoin
    /\ WF_vars(ReaderReadBlob \/ ReaderDispatch \/ ReaderWaitWork
                  \/ ReaderWaitBuf \/ ReaderCheckDone \/ ReaderSetDone)
    /\ WF_vars(Join)

(***************************************************************************)
(* SortedQueue<T> on its own: threads pushing values with distinct numbers *)
(* not below the offset, and one thread calling wait_and_pop, try_pop and  *)
(* empty.  The values include T().                                         *)
(***************************************************************************)
SQValues == { [mem |-> i, ents |-> << >>] : i \in 0..2 }
SQNumbers == 0..(MaxNum - 1)
pipe_vars == << file, num_threads, read_types, calls_left, fd_pos, reader_pc,
                n, work_queue_size, m_done, m_pending_jobs, work_queue,
                running, failed, aborted, w_vars, bp_call, pb_call,
                tl_builder, checked_task, wkb_factory >>

\* SortedQueue::SortedQueue
InitSQ ==
    /\ file = << >>
    /\ num_threads = 0
    /\ read_types = {}
    /\ calls_left = 0
    /\ InitPipeline
    /\ cons_pc = "idle"
    /\ bp_call = NoCall
    /\ pb_call = NoDecode

\* SortedQueue::empty
empty == empty_intern(m_queue)

\* SortedQueue::push
SQ_Push(value, num) ==
    /\ num \notin DOMAIN sq_pushed
    /\ num >= m_offset
    /\ m_queue' = SQPush(m_queue, m_offset, value, num)
    /\ cons_pc' = NotifyOne(cons_pc)
    /\ sq_pushed' = [i \in DOMAIN sq_pushed \cup {num} |->
                        IF i = num THEN value ELSE sq_pushed[i]]
    /\ UNCHANGED << pipe_vars, m_offset, delivered, sq_out, sq_ret >>

SQ_PushAny == \E value \in SQValues, num \in SQNumbers : SQ_Push(value, num)

\* the pop at the end of wait_and_pop and try_pop
SQ_PopFront ==
    LET r == SQPop(m_queue, m_offset)
    IN /\ sq_out' = r.value
       /\ delivered' = Append(delivered, r.value)
       /\ m_queue' = r.q
       /\ m_offset' = r.off

\* SortedQueue::wait_and_pop, to its return or to the wait
SQ_WaitAndPop ==
    /\ cons_pc = "idle"
    /\ IF ~empty_intern(m_queue)
       THEN SQ_PopFront /\ UNCHANGED cons_pc
       ELSE /\ cons_pc' = "waiting"
            /\ UNCHANGED << sq_out, delivered, m_queue, m_offset >>
    /\ UNCHANGED << pipe_vars, sq_pushed, sq_ret >>

\* SortedQueue::wait_and_pop, notified: the predicate is evaluated again
SQ_WakeUp ==
    /\ cons_pc = "woken"
    /\ IF ~empty_intern(m_queue)
       THEN SQ_PopFront /\ cons_pc' = "idle"
       ELSE /\ cons_pc' = "waiting"
            /\ UNCHANGED << sq_out, delivered, m_queue, m_offset >>
    /\ UNCHANGED << pipe_vars, sq_pushed, sq_ret >>

\* SortedQueue::try_pop
SQ_TryPop ==
    /\ cons_pc = "idle"
    /\ IF empty_intern(m_queue)
       THEN /\ sq_ret' = [op |-> "try_pop", val |-> FALSE]
            /\ UNCHANGED << sq_out, delivered, m_queue, m_offset >>
       ELSE /\ sq_ret' = [op |-> "try_pop", val |-> TRUE]
            /\ SQ_PopFront
    /\ UNCHANGED << pipe_vars, cons_pc, sq_pushed >>

\* SortedQueue::empty called
SQ_Empty ==
    /\ cons_pc = "idle"
    /\ sq_ret' = [op |-> "empty", val |-> empty]
    /\ UNCHANGED << pipe_vars, cons_pc, sq_pushed, sq_out, delivered, m_queue,
                    m_offset >>

NextSQ ==
    \/ SQ_PushAny
    \/ SQ_WaitAndPop
    \/ SQ_WakeUp
    \/ SQ_TryPop
    \/ SQ_Empty

SpecSQ == InitSQ /\ [][NextSQ]_vars

\* a thread notified in wait() is scheduled and gets the mutex
FairSpecSQ == SpecSQ /\ WF_vars(SQ_WakeUp)

(***************************************************************************)
(* osmium::io::Writer on its own: one caller making at most MaxWriterCalls *)
(* calls, each call one step, and the write thread, which may fail at any  *)
(* moment and ends after the end-of-data marker.  An item is its id and    *)
(* its size; a Buffer that is written holds one item or none.              *)
(***************************************************************************)
non_writer_vars == << file, num_threads, read_types, calls_left, fd_pos,
                      reader_pc, n, work_queue_size, m_done, m_pending_jobs,
                      work_queue, running, failed, m_queue, m_offset, cons_pc,
                      delivered, aborted, sq_pushed, sq_out, sq_ret, bp_call,
                      pb_call, tl_builder, checked_task, wkb_factory >>

InitW ==
    /\ file = << >>
    /\ num_threads = 0
    /\ read_types = {}
    /\ calls_left = 0
    /\ InitPipeline
    /\ cons_pc = "idle"
    /\ bp_call = NoCall
    /\ pb_call = NoDecode

\* the caller may make another call
CanCall == w_ret.op # "destroy" /\ w_next < MaxWriterCalls
\* m_write_future is ready and holds an exception
FutureFailed == w_thread = "failed"

\* the members and the bookkeeping after a call that ended as r says
Returned(r, op, has_data) ==
    /\ m_status' = r.w.status
    /\ m_buffer' = r.w.buffer
    /\ m_buffer_size' = r.w.size
    /\ w_output' = r.w.out
    /\ w_ret' = [op |-> op, exc |-> r.exc]
    /\ w_next' = w_next + 1
    /\ w_accepted' = IF r.exc = "none" /\ has_data
                      THEN Append(w_accepted, w_next) ELSE w_accepted
    /\ UNCHANGED << non_writer_vars, w_thread >>

\* writer(std::move(buffer))
W_CallBuffer ==
    /\ CanCall
    /\ \E committed \in 0..1, flush_fails \in BOOLEAN, write_fails \in BOOLEAN :
          LET buffer == [valid |-> TRUE, cap |-> 1,
                         items |-> IF committed = 0 THEN << >>
                                   ELSE << [id |-> w_next, size |-> 1] >>]
          IN Returned(CallBuffer(WriterState, buffer, FutureFailed,
                                 flush_fails, write_fails),
                      "buffer", committed > 0)

\* writer(item) with an item of the given size
W_Item(size, flush_fails) ==
    /\ CanCall
    /\ Returned(CallItem(WriterState, [id |-> w_next, size |-> size],
                         FutureFailed, flush_fails),
                "item", TRUE)

W_CallItem ==
    \E size \in 1..MaxItemSize, flush_fails \in BOOLEAN : W_Item(size, flush_fails)

\* writer.flush()
W_Flush ==
    /\ CanCall
    /\ \E encoder_fails \in BOOLEAN :
          Returned(Flush(WriterState, FutureFailed, encoder_fails), "flush", FALSE)

\* writer.close()
W_Close ==
    /\ CanCall
    /\ \E encoder_fails \in BOOLEAN, moved \in BOOLEAN :
          Returned(Close(WriterState, FutureFailed, encoder_fails, moved),
                   "close", FALSE)

\* writer.set_buffer_size(size)
W_SetBufferSize ==
    /\ CanCall
    /\ \E size \in 1..MaxBufferSize :
          Returned([w |-> [WriterState EXCEPT !.size = size], exc |-> "none"],
                   "set_buffer_size", FALSE)

\* Writer::~Writer: close() with its exception swallowed
W_Destroy ==
    /\ w_ret.op # "destroy"
    /\ \E encoder_fails \in BOOLEAN, moved \in BOOLEAN :
          LET r == Close(WriterState, FutureFailed, encoder_fails, moved)
          IN Returned([w |-> r.w, exc |-> "none"], "destroy", FALSE)

\* the write thread fails (compressor or write error): the promise gets the
\* exception
W_ThreadFails ==
    /\ w_ret.op # "destroy"
    /\ w_thread = "running"
    /\ w_thread' = "failed"
    /\ UNCHANGED << non_writer_vars, m_status, m_buffer, m_buffer_size,
                    w_output, w_ret, w_next, w_accepted >>

\* the write thread has written everything up to the end-of-data marker
W_ThreadEnds ==
    /\ w_ret.op # "destroy"
    /\ w_thread = "running"
    /\ \E i \in 1..Len(w_output) :
          /\ w_output[i] = EndOfDataEv
          /\ \A j \in 1..i : w_output[j] # ExceptionEv
    /\ w_thread' = "done"
    /\ UNCHANGED << non_writer_vars, m_status, m_buffer, m_buffer_size,
                    w_output, w_ret, w_next, w_accepted >>

NextW ==
    \/ W_CallBuffer
    \/ W_CallItem
    \/ W_Flush
    \/ W_Close
    \/ W_SetBufferSize
    \/ W_Destroy
    \/ W_ThreadFails
    \/ W_ThreadEnds

SpecW == InitW /\ [][NextW]_vars

(***************************************************************************)
(* BlobParser::operator() on its own: any Blob, one call.                  *)
(***************************************************************************)
InitBlob ==
    /\ file = << >>
    /\ num_threads = 0
    /\ read_types = {}
    /\ calls_left = 0
    /\ InitPipeline
    /\ cons_pc = "idle"
    /\ bp_call \in { [blob |-> b, result |-> NoResult] : b \in PbfBlobs }
    /\ pb_call = NoDecode

BP_Call ==
    /\ bp_call.result = NoResult
    /\ \E ndebug \in BOOLEAN :
          bp_call' = [bp_call EXCEPT !.result = BlobParserCall(bp_call.blob, ndebug)]
    /\ UNCHANGED << file, num_threads, read_types, calls_left, fd_pos,
                    reader_pc, n, work_queue_size, m_done, m_pending_jobs,
                    work_queue, running, failed, m_queue, m_offset, cons_pc,
                    delivered, aborted, sq_pushed, sq_out, sq_ret, w_vars,
                    pb_call, tl_builder, checked_task, wkb_factory >>

NextBlob == BP_Call

SpecBlob == InitBlob /\ [][NextBlob]_vars

(***************************************************************************)
(* PBFPrimitiveBlockParser::operator() on its own: a block, the read_types *)
(* of the constructor, one call.  A read beyond the size of a repeated     *)
(* field yields 0 or 1.                                                    *)
(***************************************************************************)
PB_Call ==
    /\ pb_call.result = NoDecode.result
    /\ \E oob \in {0, 1} :
          pb_call' = [pb_call EXCEPT
                         !.result = PrimitiveBlockParserCall(pb_call.block, read_types, oob)]
    /\ UNCHANGED << file, num_threads, calls_left, fd_pos,
                    reader_pc, n, work_queue_size, m_done, m_pending_jobs,
                    work_queue, running, failed, m_queue, m_offset, cons_pc,
                    delivered, aborted, sq_pushed, sq_out, sq_ret, w_vars,
                    bp_call, read_types, tl_builder, checked_task,
                    wkb_factory >>

\* the parser is constructed with one of rts on one of blocks
InitPB(blocks, rts) ==
    /\ file = << >>
    /\ num_threads = 0
    /\ calls_left = 0
    /\ InitPipeline
    /\ cons_pc = "idle"
    /\ bp_call = NoCall
    /\ read_types \in rts
    /\ pb_call \in { [block |-> b, result |-> NoDecode.result] : b \in blocks }

\* OSMPBF::PrimitiveBlock with the default granularities and offsets; index
\* 0 of the stringtable is the empty string
Block(groups) ==
    [parse_ok |-> TRUE, stringtable |-> << "", "a", "b", "c", "d" >>,
     granularity |-> 100, date_granularity |-> 1000, lon_offset |-> 0,
     lat_offset |-> 0, primitivegroup |-> groups]

\* OSMPBF::PrimitiveGroup with a dense message, and without
DenseGroup(dense) ==
    [has_dense |-> TRUE, dense |-> dense, ways |-> << >>,
     relations |-> << >>, nodes |-> << >>]
PlainGroup(ways, relations, nodes) ==
    [has_dense |-> FALSE, dense |-> NoDense, ways |-> ways,
     relations |-> relations, nodes |-> nodes]

\* OSMPBF::Node, Way and Relation, without tags
PbfNode(id, lat, lon, has_info, info) ==
    [id |-> id, lat |-> lat, lon |-> lon, has_info |-> has_info,
     info |-> info, keys |-> << >>, vals |-> << >>]
PbfWay(id, refs, has_info, info) ==
    [id |-> id, has_info |-> has_info, info |-> info, keys |-> << >>,
     vals |-> << >>, refs |-> refs]
PbfRelation(id, memids, roles_sid, has_info, info) ==
    [id |-> id, has_info |-> has_info, info |-> info, keys |-> << >>,
     vals |-> << >>, roles_sid |-> roles_sid, memids |-> memids,
     types |-> [i \in 1..Len(memids) |-> (i - 1) % 3]]

\* OSMPBF::DenseNodes without tags: the deltas of id, lat and lon; with
\* denseinfo, the deltas of timestamp, changeset and uid are those of lat,
\* id and lon plus 1, user_sid goes up with every positive delta of lon
DenseNodes(d1, d2, d3, has_denseinfo) ==
    [id |-> d1, lat |-> d2, lon |-> d3, has_denseinfo |-> has_denseinfo,
     denseinfo |-> IF has_denseinfo
                   THEN [version |-> [i \in DOMAIN d1 |-> i + 1],
                         timestamp |-> [i \in DOMAIN d2 |-> d2[i] + 1],
                         changeset |-> [i \in DOMAIN d1 |-> d1[i] + 1],
                         uid |-> [i \in DOMAIN d3 |-> d3[i] + 1],
                         user_sid |-> [i \in DOMAIN d3 |-> IF d3[i] < 0 THEN 0 ELSE 1],
                         visible |-> << >>]
                   ELSE NoDense.denseinfo,
     keys_vals |-> << >>]

\* the concatenations of up to k sequences of a set
RECURSIVE Concats(_, _)
Concats(S, k) ==
    IF k = 0 THEN { << >> }
    ELSE LET shorter == Concats(S, k - 1) IN
         shorter \cup { c \o r : c \in shorter, r \in S }

(***************************************************************************)
(* Blocks of dense groups that differ in their tags: keys_vals is a        *)
(* concatenation of runs, followed by nothing, by a key that has no value, *)
(* or by a pair that has no 0 after it.                                    *)
(***************************************************************************)
SpecTags ==
    /\ InitPB(LET TagRuns == { <<0>>, <<1, 2, 0>>, <<3, 4, 0>>, <<1, 2, 3, 4, 0>> }
                  TagTails == { << >>, <<1>>, <<1, 2>> }
                  TaggedGroup(nn, keys_vals) ==
                      DenseGroup([NoDense EXCEPT !.id = [i \in 1..nn |-> 1],
                                                 !.lat = [i \in 1..nn |-> 0],
                                                 !.lon = [i \in 1..nn |-> 0],
                                                 !.keys_vals = keys_vals])
                  first == { TaggedGroup(nn, c \o t) :
                               nn \in 0..MaxTagNodes, c \in Concats(TagRuns, MaxRuns),
                               t \in TagTails }
                  second == { TaggedGroup(nn, c) : nn \in 1..2, c \in TagRuns }
              IN  { Block(<<g>>) : g \in first }
                     \cup { Block(<<g, h>>) : g \in first, h \in second },
              { {"node"} })
    /\ [][PB_Call]_vars

(***************************************************************************)
(* Blocks that differ in their delta encoded fields: one or two dense      *)
(* groups, or one group of one or two ways, relations or nodes.            *)
(***************************************************************************)
SpecDelta ==
    /\ InitPB(LET DeltaValues == {-1, 1, 2}
                  PlainIds == {3, 7}
                  D == SeqsUpTo(DeltaValues, MaxDeltaNodes)
                  first == { DenseGroup(DenseNodes(d[1], d[2], d[3], di)) :
                               d \in { t \in D \X D \X D :
                                         Len(t[1]) = Len(t[2]) /\ Len(t[2]) = Len(t[3]) },
                               di \in BOOLEAN }
                  second == { DenseGroup(DenseNodes(<<2>>, <<2>>, <<2>>, di)) : di \in BOOLEAN }
                  Ways(max_refs) ==
                      { PbfWay(id, refs, FALSE, NoInfo) :
                          id \in PlainIds,
                          refs \in SeqsUpTo(DeltaValues, max_refs) \cup { <<100, 1, -1, 2>> } }
                  Relations(max_members) ==
                      { PbfRelation(id, mr[1], mr[2], FALSE, NoInfo) :
                          id \in PlainIds,
                          mr \in { t \in SeqsUpTo(DeltaValues, max_members)
                                            \X SeqsUpTo({1, 2}, max_members) :
                                      Len(t[1]) = Len(t[2]) } }
                  Nodes == { PbfNode(id, lat, 1, FALSE, NoInfo) :
                               id \in PlainIds, lat \in {-1, 2} }
                  OneOrTwo(F, S) == { <<x>> : x \in S } \cup { <<x, y>> : x \in F, y \in S }
              IN  { Block(<<g>>) : g \in first }
                     \cup { Block(<<g, h>>) : g \in first, h \in second }
                     \cup { Block(<< PlainGroup(l, << >>, << >>) >>) :
                               l \in OneOrTwo(Ways(1), Ways(MaxRefs)) }
                     \cup { Block(<< PlainGroup(<< >>, l, << >>) >>) :
                               l \in OneOrTwo(Relations(1), Relations(MaxMembers)) }
                     \cup { Block(<< PlainGroup(<< >>, << >>, l) >>) :
                               l \in OneOrTwo(Nodes, Nodes) },
              { {"node", "way", "relation"} })
    /\ [][PB_Call]_vars

(***************************************************************************)
(* Blocks that differ in the info of their entities: nodes and dense nodes *)
(* with or without info, with or without the visible field, with any value *)
(* of it; a way and a relation without info.                               *)
(***************************************************************************)
SpecVisible ==
    /\ InitPB(LET Infos ==
                      { [version |-> v, timestamp |-> 5, changeset |-> 6, uid |-> 7,
                         user_sid |-> u, has_visible |-> hv, visible |-> hv /\ vis] :
                          v \in {1, 2}, u \in {0, 1}, hv \in BOOLEAN, vis \in BOOLEAN }
                  Nodes == { PbfNode(3, 20, -10, FALSE, NoInfo) }
                              \cup { PbfNode(3, 20, -10, TRUE, info) : info \in Infos }
                  Dense(nn, has_denseinfo, visible) ==
                      [DenseNodes([i \in 1..nn |-> 1], [i \in 1..nn |-> 20],
                                  [i \in 1..nn |-> -10], has_denseinfo)
                          EXCEPT !.denseinfo.visible = visible]
                  DenseGroups ==
                      { DenseGroup(Dense(nn, FALSE, << >>)) : nn \in 1..MaxVisNodes }
                         \cup { DenseGroup(Dense(Len(vis), TRUE, vis)) :
                                   vis \in SeqsUpTo(BOOLEAN, MaxVisNodes) \ { << >> } }
                         \cup { DenseGroup(Dense(nn, TRUE, << >>)) : nn \in 1..MaxVisNodes }
              IN  { Block(<<g>>) : g \in DenseGroups }
                     \cup { Block(<< PlainGroup(<< >>, << >>, <<x>>) >>) : x \in Nodes }
                     \cup { Block(<< PlainGroup(<< >>, << >>, <<x, y>>) >>) :
                               x \in Nodes, y \in Nodes }
                     \cup { Block(<< g, PlainGroup(<< >>, << >>, <<x>>) >>) :
                               g \in DenseGroups, x \in Nodes }
                     \cup { Block(<< PlainGroup(<<PbfWay(3, <<1>>, FALSE, NoInfo)>>,
                                                << >>, << >>) >>),
                            Block(<< PlainGroup(<< >>,
                                                <<PbfRelation(3, <<1>>, <<1>>, FALSE, NoInfo)>>,
                                                << >>) >>) },
              { {"node", "way", "relation"} })
    /\ [][PB_Call]_vars

(***************************************************************************)
(* Blocks of groups with any combination of populated sub-lists, a dense   *)
(* message without nodes included, decoded for any read_types.  The id of  *)
(* an entity tells its group, its sub-list and its place in the sub-list.  *)
(***************************************************************************)
SpecGroups ==
    /\ InitPB(LET EntityId(g, list, i) == 100 * g + 10 * list + i
                  Shapes == [dense : (-1)..MaxListLen, ways : 0..1,
                             relations : 0..1, nodes : 0..MaxListLen]
                  \* group g with the sub-lists of a shape; dense = -1: no dense
                  ShapedGroup(g, shape) ==
                      [has_dense |-> shape.dense >= 0,
                       dense |-> [NoDense EXCEPT
                                    !.id = [i \in 1..shape.dense |->
                                               IF i = 1 THEN EntityId(g, 1, 1) ELSE 1],
                                    !.lat = [i \in 1..shape.dense |-> 0],
                                    !.lon = [i \in 1..shape.dense |-> 0]],
                       ways |-> [i \in 1..shape.ways |->
                                    PbfWay(EntityId(g, 2, i), <<1>>, FALSE, NoInfo)],
                       relations |-> [i \in 1..shape.relations |->
                                         PbfRelation(EntityId(g, 3, i), <<1>>, <<1>>,
                                                     FALSE, NoInfo)],
                       nodes |-> [i \in 1..shape.nodes |->
                                     PbfNode(EntityId(g, 4, i), 0, 0, FALSE, NoInfo)]]
              IN  { Block([g \in 1..Len(shapes) |-> ShapedGroup(g, shapes[g])]) :
                      shapes \in SeqsUpTo(Shapes, MaxGroups) \ { << >> } },
              SUBSET {"node", "way", "relation"})
    /\ [][PB_Call]_vars

(***************************************************************************)
(* Blocks that differ in granularity, offsets and date_granularity, with a *)
(* node, a dense group of two nodes, or a way or a relation with info; and *)
(* the block of scenario S1, its lon/lat values taken as the deltas of the *)
(* dense arrays or as the positions the deltas lead to.                    *)
(***************************************************************************)
S1Deltas ==
    Block(<< DenseGroup(DenseNodes(<<10, 1, 1>>, <<0, 200, 50>>, <<0, 100, -50>>, FALSE)) >>)
S1Positions ==
    Block(<< DenseGroup(DenseNodes(<<10, 1, 1>>, <<0, 200, -150>>, <<0, 100, -150>>, FALSE)) >>)

SpecCoord ==
    /\ InitPB(LET Info == [version |-> 1, timestamp |-> 7, changeset |-> 6, uid |-> 7,
                           user_sid |-> 1, has_visible |-> FALSE, visible |-> FALSE]
                  Deltas == { <<2, -3>>, <<-3, 1>> }
                  Groups ==
                      { PlainGroup(<< >>, << >>,
                                   << PbfNode(3, lat, lon, hi, IF hi THEN Info ELSE NoInfo) >>) :
                          lat \in {-3, 2}, lon \in {-3, 0, 1, 2}, hi \in BOOLEAN }
                         \cup { DenseGroup(DenseNodes(<<2, 1>>, dlat, dlon, di)) :
                                   dlat \in Deltas, dlon \in Deltas, di \in BOOLEAN }
                         \cup { PlainGroup(<< PbfWay(3, <<1>>, TRUE, Info) >>, << >>, << >>),
                                PlainGroup(<< >>, << PbfRelation(3, <<1>>, <<1>>, TRUE, Info) >>,
                                           << >>) }
              IN  { [Block(<<g>>) EXCEPT !.granularity = gr, !.lon_offset = lo,
                                         !.lat_offset = la, !.date_granularity = dg] :
                      g \in Groups, gr \in {1, 100, 250}, lo \in {-150, 0, 70},
                      la \in {0, 70},
                      dg \in {-1000, -999, 0, 999, 1000, 1500, 3000} }
                     \cup { S1Deltas, S1Positions },
              { {"node", "way", "relation"} })
    /\ [][PB_Call]_vars

(***************************************************************************)
(* TagListBuilder, CheckedTask and WKBFactory are modelled on their own.   *)
(* A C string is the sequence of its characters, without the NUL.          *)
(***************************************************************************)
\* nothing constructed yet
InitAlone ==
    /\ file = << >>
    /\ num_threads = 0
    /\ read_types = {}
    /\ calls_left = 0
    /\ InitPipeline
    /\ cons_pc = "idle"
    /\ bp_call = NoCall
    /\ pb_call = NoDecode

(***************************************************************************)
(* osmium::builder::TagListBuilder.  data are the bytes appended behind    *)
(* the header of the TagList, size is the size accumulator, recorded the   *)
(* length in the header slot, calls the add_tag calls made so far.         *)
(***************************************************************************)
\* TagListBuilder::TagListBuilder: ObjectBuilder<TagList> reserves the
\* header, the 8 bytes of an item
TL_Construct ==
    /\ tl_builder.state = "none"
    /\ tl_builder' = [tl_builder EXCEPT !.state = "open", !.size = 8]
    /\ UNCHANGED << io_vars, checked_task, wkb_factory >>

\* TagListBuilder::add_tag: add_size(append(key) + append(value)); the two
\* append calls are operands of +, evaluated in either order
TL_AddTag ==
    /\ tl_builder.state = "open"
    /\ Len(tl_builder.calls) < MaxTags
    /\ \E key \in SeqsUpTo(1..MaxChar, MaxStrLen),
          value \in SeqsUpTo(1..MaxChar, MaxStrLen),
          key_first \in BOOLEAN :
          tl_builder' = [tl_builder EXCEPT
              !.data = @ \o (IF key_first
                             THEN key \o <<0>> \o value \o <<0>>
                             ELSE value \o <<0>> \o key \o <<0>>),
              !.size = @ + (Len(key) + 1) + (Len(value) + 1),
              !.calls = Append(@, <<key, value>>)]
    /\ UNCHANGED << io_vars, checked_task, wkb_factory >>

\* TagListBuilder::~TagListBuilder: add_padding(), then the length is
\* written into the header slot
TL_Release ==
    /\ tl_builder.state = "open"
    /\ LET padding == (8 - (tl_builder.size % 8)) % 8
       IN  tl_builder' = [tl_builder EXCEPT
               !.state = "released",
               !.data = @ \o [i \in 1..padding |-> 0],
               !.size = @ + padding,
               !.recorded = tl_builder.size + padding]
    /\ UNCHANGED << io_vars, checked_task, wkb_factory >>

SpecTagList == InitAlone /\ [][TL_Construct \/ TL_AddTag \/ TL_Release]_vars

(***************************************************************************)
(* osmium::thread::CheckedTask.  task is the packaged task in m_thread:    *)
(* "running", "ready" once its result or exception is stored in the shared *)
(* state of m_future, "exited" once the thread function has returned.  pc  *)
(* is the position of the owning thread: "idle" between calls, "get" and   *)
(* "join" inside close().  rets are the calls that have come back, with    *)
(* whether they threw.                                                     *)
(***************************************************************************)
\* CheckedTask::CheckedTask
CT_Construct ==
    /\ checked_task.state = "none"
    /\ checked_task' = [state |-> "alive", task |-> "running", threw |-> FALSE,
                        m_future_valid |-> TRUE, joinable |-> TRUE,
                        pc |-> "idle", in_destructor |-> FALSE, rets |-> << >>]
    /\ UNCHANGED << io_vars, tl_builder, wkb_factory >>

\* the thread of the packaged task: the task ends, with or without an
\* exception, and the shared state becomes ready; the thread function returns
CT_Thread ==
    /\ checked_task.state # "none"
    /\ \/ /\ checked_task.task = "running"
          /\ \E throws \in BOOLEAN :
                checked_task' = [checked_task EXCEPT !.task = "ready",
                                                     !.threw = throws]
       \/ /\ checked_task.task = "ready"
          /\ checked_task' = [checked_task EXCEPT !.task = "exited"]
    /\ UNCHANGED << io_vars, tl_builder, wkb_factory >>

\* CheckedTask::check_for_exception
CT_CheckForException ==
    /\ checked_task.state = "alive"
    /\ checked_task.pc = "idle"
    /\ Len(checked_task.rets) < MaxTaskCalls
    /\ IF checked_task.m_future_valid /\ checked_task.task # "running"
       THEN \* m_future.get(): the future is not valid afterwards
            checked_task' = [checked_task EXCEPT
                !.m_future_valid = FALSE,
                !.rets = Append(@, [op |-> "check_for_exception",
                                    exc |-> checked_task.threw])]
       ELSE checked_task' = [checked_task EXCEPT
                !.rets = Append(@, [op |-> "check_for_exception", exc |-> FALSE])]
    /\ UNCHANGED << io_vars, tl_builder, wkb_factory >>

\* the steps of close() with a get() that leaves the future valid
CT_CloseFutureKept ==
    /\ checked_task.state = "alive"
    /\ \/ /\ checked_task.pc = "idle"
          /\ ~checked_task.in_destructor
          /\ Len(checked_task.rets) < MaxTaskCalls
          /\ checked_task' = [checked_task EXCEPT !.pc = "get"]
       \/ /\ checked_task.pc = "get"
          /\ IF ~checked_task.m_future_valid
             THEN checked_task' = [checked_task EXCEPT !.pc = "join"]
             ELSE /\ checked_task.task # "running"
                  /\ IF ~checked_task.threw
                     THEN checked_task' = [checked_task EXCEPT !.pc = "join"]
                     ELSE IF checked_task.in_destructor
                     THEN checked_task' = [checked_task EXCEPT !.state = "terminated"]
                     ELSE checked_task' = [checked_task EXCEPT
                              !.pc = "idle",
                              !.rets = Append(@, [op |-> "close", exc |-> TRUE])]
       \/ /\ checked_task.pc = "join"
          /\ checked_task.joinable => checked_task.task = "exited"
          /\ checked_task' = [checked_task EXCEPT
                 !.joinable = FALSE,
                 !.pc = "idle",
                 !.state = IF checked_task.in_destructor THEN "destroyed" ELSE @,
                 !.rets = IF checked_task.in_destructor THEN @
                          ELSE Append(@, [op |-> "close", exc |-> FALSE])]
    /\ UNCHANGED << io_vars, tl_builder, wkb_factory >>

\* CheckedTask::close, called by the owner or by the destructor: the call,
\* then "if (m_future.valid()) m_future.get();", which waits for the shared
\* state and rethrows the exception stored in it, then "if
\* (m_thread.joinable()) m_thread.join();".  An exception that leaves the
\* destructor ends the program.
CT_Close ==
    /\ checked_task.state = "alive"
    /\ \/ /\ checked_task.pc = "idle"
          /\ ~checked_task.in_destructor
          /\ Len(checked_task.rets) < MaxTaskCalls
          /\ checked_task' = [checked_task EXCEPT !.pc = "get"]
       \/ /\ checked_task.pc = "get"
          /\ IF ~checked_task.m_future_valid
             THEN checked_task' = [checked_task EXCEPT !.pc = "join"]
             ELSE /\ checked_task.task # "running"
                  /\ IF ~checked_task.threw
                     THEN checked_task' = [checked_task EXCEPT
                              !.m_future_valid = FALSE, !.pc = "join"]
                     ELSE IF checked_task.in_destructor
                     THEN checked_task' = [checked_task EXCEPT
                              !.m_future_valid = FALSE, !.state = "terminated"]
                     ELSE checked_task' = [checked_task EXCEPT
                              !.m_future_valid = FALSE,
                              !.pc = "idle",
                              !.rets = Append(@, [op |-> "close", exc |-> TRUE])]
       \/ /\ checked_task.pc = "join"
          /\ checked_task.joinable => checked_task.task = "exited"
          /\ checked_task' = [checked_task EXCEPT
                 !.joinable = FALSE,
                 !.pc = "idle",
                 !.state = IF checked_task.in_destructor THEN "destroyed" ELSE @,
                 !.rets = IF checked_task.in_destructor THEN @
                          ELSE Append(@, [op |-> "close", exc |-> FALSE])]
    /\ UNCHANGED << io_vars, tl_builder, wkb_factory >>

\* CheckedTask::~CheckedTask: close()
CT_Destroy ==
    /\ checked_task.state = "alive"
    /\ checked_task.pc = "idle"
    /\ ~checked_task.in_destructor
    /\ checked_task' = [checked_task EXCEPT !.in_destructor = TRUE, !.pc = "get"]
    /\ UNCHANGED << io_vars, tl_builder, wkb_factory >>

SpecCheckedTask ==
    InitAlone /\ [][CT_Construct \/ CT_Thread \/ CT_CheckForException
                       \/ CT_Close \/ CT_Destroy]_vars

(***************************************************************************)
(* osmium::geom::WKBFactory, the linestring functions.  A std::string is   *)
(* the sequence of its bytes; the 8 bytes of a double are stood for by the *)
(* 8 bytes of the coordinate as an integer.  added are the locations added *)
(* since the last linestring_start(), ret is the last call and its result. *)
(***************************************************************************)
srid == 4326
wkbLineString == 2
wkbSRID == 536870912
wkbNDR == 1

\* WKBFactory::WKBFactory(ewkb), followed or not by set_hex_mode()
WKB_Construct ==
    /\ wkb_factory.state = "none"
    /\ \E ewkb \in BOOLEAN, hex \in BOOLEAN :
          wkb_factory' = [wkb_factory EXCEPT !.state = "constructed",
                                             !.m_ewkb = ewkb, !.m_hex = hex]
    /\ UNCHANGED << io_vars, tl_builder, checked_task >>

\* WKBFactory::str_push: the size bytes of data, lowest first, at the end
RECURSIVE str_push(_, _, _)
str_push(str, data, size) ==
    IF size = 0 THEN str
    ELSE str_push(Append(str, data % 256), data \div 256, size - 1)

\* WKBFactory::header
header(str, type, m_ewkb) ==
    IF m_ewkb
    THEN str_push(str_push(str_push(str, wkbNDR, 1), type + wkbSRID, 4), srid, 4)
    ELSE str_push(str_push(str, wkbNDR, 1), type, 4)

\* WKBFactory::linestring_start
WKB_LinestringStart ==
    /\ wkb_factory.state = "constructed"
    /\ wkb_factory.finished < MaxLinestrings
    /\ wkb_factory' = [wkb_factory EXCEPT
           !.m_data = str_push(header(<< >>, wkbLineString, wkb_factory.m_ewkb), 0, 4),
           !.m_points = 0,
           !.started = TRUE,
           !.added = << >>,
           !.ret = [op |-> "linestring_start", outcome |-> "returned", data |-> << >>]]
    /\ UNCHANGED << io_vars, tl_builder, checked_task >>

\* WKBFactory::linestring_add_location
WKB_LinestringAddLocation ==
    /\ wkb_factory.state = "constructed"
    /\ wkb_factory.started
    /\ wkb_factory.m_points < MaxPoints
    /\ \E lon \in 0..MaxCoord, lat \in 0..MaxCoord :
          wkb_factory' = [wkb_factory EXCEPT
              !.m_data = str_push(str_push(@, lon, 8), lat, 8),
              !.m_points = @ + 1,
              !.added = Append(@, <<lon, lat>>),
              !.ret = [op |-> "linestring_add_location", outcome |-> "returned",
                       data |-> << >>]]
    /\ UNCHANGED << io_vars, tl_builder, checked_task >>

\* WKBFactory::linestring_finish: memcpy(&data[5], &m_points, 4) writes the
\* bytes 5 to 8 of data, counted from 0; convert_to_hex gives two hex digits
\* per byte, here the numbers 0 to 15
WKB_LinestringFinish ==
    /\ wkb_factory.state = "constructed"
    /\ wkb_factory.started
    /\ IF wkb_factory.m_points < 2
       THEN wkb_factory' = [wkb_factory EXCEPT
                !.m_data = << >>,
                !.started = FALSE,
                !.finished = @ + 1,
                !.ret = [op |-> "linestring_finish", outcome |-> "geometry_error",
                         data |-> << >>]]
       ELSE LET points == str_push(<< >>, wkb_factory.m_points, 4)
                data == [i \in 1..Len(wkb_factory.m_data) |->
                            IF i \in 6..9 THEN points[i - 5]
                            ELSE wkb_factory.m_data[i]]
                out == [i \in 1..(2 * Len(data)) |->
                           IF i % 2 = 1 THEN (data[(i + 1) \div 2] \div 16) % 16
                           ELSE data[i \div 2] % 16]
            IN  wkb_factory' = [wkb_factory EXCEPT
                    !.m_data = << >>,
                    !.started = FALSE,
                    !.finished = @ + 1,
                    !.ret = [op |-> "linestring_finish", outcome |-> "returned",
                             data |-> IF wkb_factory.m_hex THEN out ELSE data]]
    /\ UNCHANGED << io_vars, tl_builder, checked_task >>

SpecWKB ==
    InitAlone /\ [][WKB_Construct \/ WKB_LinestringStart
                       \/ WKB_LinestringAddLocation \/ WKB_LinestringFinish]_vars

(***************************************************************************)
(* Properties of SortedQueue.                                              *)
(***************************************************************************)
\* a value other than T() has been pushed with the number of the front
FrontFilled ==
    /\ m_offset \in DOMAIN sq_pushed
    /\ sq_pushed[m_offset] # NoBuffer

\* C7: whatever the order of the pushes, the j-th successful pop hands out
\* the value pushed with number j-1: ascending numbers from the front
\* offset, one per pop, none skipped.
C7_AscendingOrder ==
    /\ m_offset = Len(delivered)
    /\ \A j \in 1..Len(delivered) :
           /\ j - 1 \in DOMAIN sq_pushed
           /\ delivered[j] = sq_pushed[j - 1]
           /\ delivered[j] # NoBuffer

\* number 0 was popped by try_pop; number 2 was pushed before number 1
C7_Witness ==
    /\ Len(delivered) = 1
    /\ sq_ret = [op |-> "try_pop", val |-> TRUE]
    /\ 1 \notin DOMAIN sq_pushed
    /\ Len(m_queue) >= 2
    /\ m_queue[2] # NoBuffer

\* C8: wait_and_pop sleeps only while the front slot is unfilled, returns
\* only when it is filled, and once a value has been pushed with the front
\* number the waiting call eventually returns that value, whatever else is
\* pushed in between: no wake-up is lost.
C8_WaitAndPopReturns ==
    /\ [](cons_pc = "waiting" => ~FrontFilled)
    /\ [][(cons_pc \in {"waiting", "woken"} /\ cons_pc' = "idle")
             => (FrontFilled /\ sq_out' = sq_pushed[m_offset])]_vars
    /\ \A k \in SQNumbers :
           (cons_pc \in {"waiting", "woken"} /\ m_offset = k /\ FrontFilled)
               ~> (cons_pc = "idle" /\ Len(delivered) > k
                   /\ delivered[k + 1] = sq_pushed[k])

\* the call slept, number 2 was pushed, then number 1, the front
C8_Witness ==
    /\ cons_pc = "woken"
    /\ m_offset = 1
    /\ FrontFilled
    /\ 2 \in DOMAIN sq_pushed

\* C9: empty() is true iff the front slot is unfilled, whatever the slots
\* further back hold; try_pop returns false exactly then, changing neither
\* the deque nor the offset nor its argument, and otherwise returns true
\* with the front value removed and the offset advanced by one.
C9_EmptyAndTryPop ==
    /\ [](empty <=> ~FrontFilled)
    /\ [][SQ_TryPop =>
            IF empty
            THEN /\ sq_ret'.val = FALSE
                 /\ UNCHANGED << m_queue, m_offset, sq_out >>
            ELSE /\ sq_ret'.val = TRUE
                 /\ sq_out' = sq_pushed[m_offset]
                 /\ m_queue' = Tail(m_queue)
                 /\ m_offset' = m_offset + 1]_vars

\* try_pop returned false with the front unfilled and a later slot filled
C9_Witness ==
    /\ sq_ret = [op |-> "try_pop", val |-> FALSE]
    /\ m_queue[1] = NoBuffer
    /\ Len(m_queue) >= 2
    /\ m_queue[2] # NoBuffer

(***************************************************************************)
(* Properties of the reading pipeline.                                     *)
(***************************************************************************)
\* the data buffers among the values handed to the caller
IsData(b) == b # NoBuffer
DataBuffers == SelectSeq(delivered, IsData)
\* the buffer a complete decode of blob num produces
DecodedBuffer(num) ==
    [mem |-> num + 1, ents |-> PrimitiveBlockParse(BlobOf(num), read_types).ents]
\* blob num decodes without an exception
Decodes(num) ==
    /\ BlobOf(num).type = "OSMData"
    /\ BlobOf(num).datasize > 0
    /\ BlobPayloadOk(BlobOf(num))
    /\ ~PrimitiveBlockParse(BlobOf(num), read_types).err
WellFormedFile ==
    /\ Len(file) >= 1
    /\ file[1] = HeaderBlob
    /\ \A num \in 0..(NumDataBlobs - 1) : Decodes(num)
FilledSlots == { i \in 1..Len(m_queue) : m_queue[i] # NoBuffer }
\* nobody is left who could push to the reorder queue
NoPusherLeft ==
    /\ reader_pc \in {"idle", "finished"}
    /\ work_queue = << >>
    /\ running = {}

\* C1: the k-th data buffer returned by next_buffer() is the buffer decoded
\* from the k-th OSMData blob (sequence number k-1), for every number of
\* workers and every interleaving: nothing is reordered, skipped or
\* delivered twice.
C1_FileOrder ==
    \A k \in 1..Len(DataBuffers) :
        /\ k <= NumDataBlobs
        /\ DataBuffers[k] = DecodedBuffer(k - 1)

\* the caller got the buffer of blob 0; blob 2 was decoded and pushed while
\* blob 1 is still with a worker
C1_Witness ==
    /\ num_threads = 2
    /\ Len(DataBuffers) = 1
    /\ 1 \in running
    /\ m_queue[1] = NoBuffer
    /\ Len(m_queue) >= 2
    /\ m_queue[2] = DecodedBuffer(2)

\* C2 (as stated): on a well-formed file, with a framing thread, a caller
\* inside next_buffer() is never asleep in wait_and_pop when nobody is left
\* to push: such a call would never return the end-of-input Buffer.
C2_NeverStuckAtEnd ==
    (WellFormedFile /\ read_types # {})
        => ~(cons_pc = "waiting" /\ NoPusherLeft)

\* C3 (as stated): the empty Buffer is returned only when the framing thread
\* has reached the end of the file and every data blob has been returned:
\* exactly N data buffers precede the first empty one and only empty ones
\* follow, none of the later calls blocking.
C3_EndOfInput ==
    \A k \in 1..Len(delivered) :
        delivered[k] = NoBuffer =>
            /\ reader_pc = "finished"
            /\ fd_pos = Len(file)
            /\ k > NumDataBlobs
            /\ \A j \in 1..NumDataBlobs : delivered[j] = DecodedBuffer(j - 1)
            /\ \A j \in k..Len(delivered) : delivered[j] = NoBuffer
            /\ cons_pc \notin {"waiting", "woken"}

\* What holds instead: the empty Buffer is returned only when the framing
\* thread has stopped reading, at the end of the file or at a BlobHeader with
\* datasize 0, and every data blob it read has been returned; only empty
\* Buffers follow, without blocking.
EndOfInputAfterStop ==
    \A k \in 1..Len(delivered) :
        delivered[k] = NoBuffer =>
            /\ reader_pc = "finished"
            /\ fd_pos = Len(file) \/ file[fd_pos + 1].datasize = 0
            /\ k > fd_pos - 1
            /\ \A j \in 1..(fd_pos - 1) : delivered[j] = DecodedBuffer(j - 1)
            /\ \A j \in k..Len(delivered) : delivered[j] = NoBuffer
            /\ cons_pc \notin {"waiting", "woken"}

\* C4 (as stated): once the decoding of blob n has thrown, the error reaches
\* the caller: the call that reaches sequence number n does not sleep in
\* wait_and_pop, and the process is not terminated.
C4_ErrorRouted ==
    \A k \in failed :
        /\ ~aborted
        /\ ~(cons_pc = "waiting" /\ m_offset = k)

\* C5 (as stated): a second blob whose BlobHeader type is not OSMData is
\* reported to the caller by next_buffer(); the process is not terminated by
\* the exception of the framing thread.
C5_TypeErrorSurfaced ==
    (Len(file) >= 2 /\ file[1] = HeaderBlob /\ file[2].type # "OSMData")
        => ~aborted

\* C6: a blob whose decoding fails contributes no Buffer: every buffer in
\* the reorder queue or handed to the caller is the complete decode of a
\* blob that decodes without error.
C6_NoPartialResult ==
    /\ \A i \in FilledSlots :
           /\ m_queue[i].mem - 1 \notin failed
           /\ Decodes(m_queue[i].mem - 1)
           /\ m_queue[i] = DecodedBuffer(m_queue[i].mem - 1)
    /\ \A k \in 1..Len(DataBuffers) :
           /\ DataBuffers[k].mem - 1 \notin failed
           /\ Decodes(DataBuffers[k].mem - 1)

\* a block failed after entities had been built, and a later blob is queued
C6_Witness ==
    /\ 0 \in failed
    /\ BlobOf(0) = BadGroupBlob
    /\ PrimitiveBlockParse(BlobOf(0), read_types).ents # << >>
    /\ Len(m_queue) >= 2
    /\ m_queue[2] # NoBuffer

\* blobs the framing thread has read and the caller has not consumed
Unconsumed == fd_pos - 1 - m_offset

\* C10 (as stated): the blobs read and not consumed never exceed
\* (4 + 10) x num_workers plus a constant independent of num_workers; the
\* constant is the 10 the code allows without workers.
C10_Bound14 ==
    Unconsumed <= (WorkQueueFactor + BufferQueueFactor) * num_threads + BufferQueueBase

\* C10 (amended): the blobs read and not consumed never exceed
\* (4 + 10 + 1) x num_workers + 10: every worker holds one blob more.
C10_Bound15 ==
    Unconsumed <= (WorkQueueFactor + BufferQueueFactor + 1) * num_threads + BufferQueueBase

\* the caller has stopped and the framing thread sleeps on both thresholds'
\* account: the work queue is full and the reorder queue is over its limit
C10_Witness ==
    /\ num_threads = 2
    /\ cons_pc = "idle"
    /\ calls_left = 0
    /\ reader_pc = "wait_work"
    /\ Len(work_queue) = m_max_work_queue_size
    /\ Cardinality(running) = num_threads
    /\ Unconsumed = (WorkQueueFactor + BufferQueueFactor + 1) * num_threads + BufferQueueBase - 1

C12_DoneEndsFraming ==
    /\ [][(m_done /\ (ReaderWaitWork \/ ReaderWaitBuf))
            => reader_pc' # reader_pc]_vars
    /\ [][(m_done /\ reader_pc \in {"dispatch", "wait_work", "wait_buf", "check_done"})
            => (reader_pc' # "read" /\ fd_pos' = fd_pos)]_vars
    /\ [][(m_done /\ reader_pc = "finished") => reader_pc' = "finished"]_vars
    /\ (cons_pc = "joining") ~> (cons_pc = "destroyed")

\* the destructor has set the flag and waits in join() while the framing
\* thread sleeps on a reorder queue over its limit, the caller having
\* stopped with nothing consumed
C12_Witness ==
    /\ num_threads = 1
    /\ cons_pc = "joining"
    /\ m_done
    /\ m_offset = 0
    /\ reader_pc = "wait_buf"
    /\ BufferQueueFull(Len(m_queue))

(***************************************************************************)
(* Properties of the Writer.                                               *)
(***************************************************************************)
\* positions of w_output where the status left okay
StatusLeftOkayAt == { i \in 1..Len(w_output) : w_output[i].ev \in {"exception", "write_end"} }

\* C13: the status never leaves closed or error, whatever is called, and
\* write_buffer is called only in status okay: by calls entered in status
\* okay, and never after the exception or the write_end that go with
\* leaving okay.
C13_StatusAbsorbing ==
    /\ [](m_status \in {"okay", "closed", "error"})
    /\ [][m_status # "okay" => m_status' = m_status]_vars
    /\ [][(\E i \in (Len(w_output) + 1)..Len(w_output') :
               w_output'[i].ev = "write_buffer") => m_status = "okay"]_vars
    /\ [](\A i \in StatusLeftOkayAt : \A j \in (i + 1)..Len(w_output) :
               w_output[j].ev # "write_buffer")
    /\ [](m_status = "okay" <=> StatusLeftOkayAt = {})

\* a Buffer was written, the status became error, and close() was called
C13_Witness ==
    /\ m_status = "error"
    /\ w_ret = [op |-> "close", exc |-> "none"]
    /\ Len(w_output) >= 1
    /\ w_output[1].ev = "write_buffer"

\* C14 (as stated): in status error a write of a Buffer and a write of an
\* Item both end in an exception, leaving the internal buffer as it is and
\* handing nothing to the output format or its queue.
C14_WritesRejected ==
    [][(m_status = "error" /\ (W_CallBuffer \/ W_CallItem))
         => /\ w_ret'.exc # "none"
            /\ m_buffer' = m_buffer
            /\ w_output' = w_output]_vars

\* What holds instead: operator()(Buffer&&) is rejected that way, with the
\* io_error of Writer::write.
BufferWritesRejected ==
    [][(m_status = "error" /\ W_CallBuffer)
         => /\ w_ret'.exc = "io_error"
            /\ m_buffer' = m_buffer
            /\ w_output' = w_output]_vars

\* C15 (as stated): a close() called in status okay after the write thread
\* has failed does not return normally: it rethrows the exception the write
\* thread captured.
C15_CloseRethrows ==
    [][(W_Close /\ m_status = "okay" /\ w_thread = "failed")
         => w_ret'.exc # "none"]_vars

\* the ids of the items handed to write_buffer, in the order of the calls
RECURSIVE Written(_)
Written(out) ==
    IF out = << >> THEN << >> ELSE Head(out).ids \o Written(Tail(out))

C17_SubmissionOrder ==
    /\ \A i \in 1..Len(Written(w_output)) : \A j \in (i + 1)..Len(Written(w_output)) :
           Written(w_output)[i] < Written(w_output)[j]
    /\ \A i \in 1..Len(Written(w_output)) :
           \E j \in 1..Len(w_accepted) : w_accepted[j] = Written(w_output)[i]
    /\ m_status = "okay"
           => Written(w_output) \o ItemIds(m_buffer.items) = w_accepted

\* an item, then a Buffer, then an item: the Buffer call flushed the first
\* item before writing its own
C17_Witness ==
    /\ m_status = "okay"
    /\ w_ret = [op |-> "item", exc |-> "none"]
    /\ w_next = 3
    /\ w_output = << [ev |-> "write_buffer", ids |-> << 0 >>],
                     [ev |-> "write_buffer", ids |-> << 1 >>] >>
    /\ ItemIds(m_buffer.items) = << 2 >>

\* C18 (as stated): in status okay a write of an item that fits into an
\* empty buffer of buffer_size() does not end in buffer_is_full.
C18_FullNotSurfaced ==
    [][\A size \in 1..MaxItemSize, flush_fails \in BOOLEAN :
          (W_Item(size, flush_fails) /\ m_status = "okay" /\ size <= m_buffer_size)
              => w_ret'.exc # "buffer_is_full"]_vars

\* What holds instead: when the item does not fit into the rest of an
\* internal buffer that holds something, that buffer goes to write_buffer
\* and, unless that write throws, the item is the first of a fresh buffer of
\* buffer_size() if it fits there; buffer_is_full is surfaced if it does not.
ItemRetriedAfterFlush ==
    [][\A size \in 1..MaxItemSize, flush_fails \in BOOLEAN :
          (/\ W_Item(size, flush_fails)
           /\ m_status = "okay"
           /\ m_buffer.valid
           /\ Committed(m_buffer) > 0
           /\ Committed(m_buffer) + size > m_buffer.cap
           /\ w_ret'.exc \in {"none", "buffer_is_full"})
              => /\ w_output' = Append(w_output, WriteBufferEv(m_buffer))
                 /\ w_ret'.exc = "none" <=> size <= m_buffer_size
                 /\ m_buffer' = [valid |-> TRUE, cap |-> m_buffer_size,
                                  items |-> IF size <= m_buffer_size
                                            THEN << [id |-> w_next, size |-> size] >>
                                            ELSE << >>]
                 /\ m_status' = "okay"]_vars

(***************************************************************************)
(* Properties of the framing of the file.                                  *)
(***************************************************************************)
\* C19: only OSMHeader, OSMData, OSMData, ... gets past the reader.  read()
\* fails on a first BlobHeader of another type, without reading on and
\* without starting the framing thread; every blob the framing thread has
\* taken from the file is of type OSMData; on the first BlobHeader of
\* another type that it reads, a second OSMHeader included, it fails
\* without taking or dispatching the blob, and nothing happens afterwards.
\* (BlobHeaders it never reads are not checked.)
C19_TypeChecked ==
    /\ []((cons_pc # "init" /\ file[1].type # "OSMHeader")
            => /\ cons_pc \in {"read_failed", "joining", "destroyed"}
               /\ fd_pos = 0
               /\ reader_pc = "idle"
               /\ delivered = << >>)
    /\ [](\A i \in 2..fd_pos : file[i].type = "OSMData")
    /\ [][(ReaderReadBlob /\ fd_pos < Len(file) /\ file[fd_pos + 1].type # "OSMData")
            => /\ aborted'
               /\ UNCHANGED << fd_pos, n, m_pending_jobs, work_queue, m_queue >>]_vars
    /\ [][~aborted]_vars

\* the framing thread has failed on a second OSMHeader that follows a data
\* blob, which it had read and dispatched
C19_Witness ==
    /\ aborted
    /\ failed = {}
    /\ fd_pos = 2
    /\ Len(file) >= 4
    /\ file[3] = HeaderBlob
    /\ n = 1

\* the zlib_data of the blob inflates, and to exactly raw_size bytes
InflatesToRawSize(blob) ==
    /\ blob.zlib_valid
    /\ blob.raw_size >= 0
    /\ Len(blob.zlib_content) = blob.raw_size

\* C20: handle_blob is called in two cases only: with the bytes of raw when
\* raw is set, and, when raw is not set and zlib_data is, with what
\* zlib_data inflates to, that being exactly raw_size bytes.  A Blob with
\* raw always gets there.  zlib_data that does not inflate or inflates to
\* another size, lzma_data, and no payload at all each end in an error
\* without handle_blob; raw goes before zlib_data, zlib_data before
\* lzma_data.
C20_PayloadHandedOver ==
    bp_call.result # NoResult =>
        LET b == bp_call.blob
            r == bp_call.result
        IN /\ r.outcome \in {"handle_blob", "throw", "abort"}
           /\ r.outcome = "handle_blob" =>
                  /\ b.parse_ok
                  /\ \/ b.has_raw /\ r.data = b.raw
                     \/ /\ ~b.has_raw
                        /\ b.has_zlib_data
                        /\ InflatesToRawSize(b)
                        /\ r.data = b.zlib_content
                        /\ Len(r.data) = b.raw_size
           /\ (b.parse_ok /\ b.has_raw) => r = HandleBlobCalled(b.raw)
           /\ (b.parse_ok /\ ~b.has_raw /\ b.has_zlib_data
                 /\ InflatesToRawSize(b) /\ b.raw_size <= MaxUncompressed)
                  => r = HandleBlobCalled(b.zlib_content)
           /\ (b.parse_ok /\ ~b.has_raw /\ b.has_zlib_data /\ ~InflatesToRawSize(b))
                  => r.outcome # "handle_blob"
           /\ (b.parse_ok /\ ~b.has_raw /\ b.has_zlib_data
                 /\ ~InflatesToRawSize(b) /\ 0 <= b.raw_size
                 /\ b.raw_size <= MaxUncompressed)
                  => r = Throws("zlib error")
           /\ (b.parse_ok /\ ~b.has_raw /\ ~b.has_zlib_data /\ b.has_lzma_data)
                  => r = Throws("lzma blobs not implemented")
           /\ (b.parse_ok /\ ~b.has_raw /\ ~b.has_zlib_data /\ ~b.has_lzma_data)
                  => r = Throws("Blob contains no data")

\* a Blob with zlib_data and lzma_data but no raw, whose zlib_data inflates
\* to raw_size bytes, has reached handle_blob
C20_Witness ==
    /\ bp_call.result.outcome = "handle_blob"
    /\ ~bp_call.blob.has_raw
    /\ bp_call.blob.has_zlib_data
    /\ bp_call.blob.has_lzma_data
    /\ bp_call.blob.raw # bp_call.blob.zlib_content
    /\ bp_call.result.data = << 1 >>

(***************************************************************************)
(* Properties of PBFPrimitiveBlockParser.                                  *)
(***************************************************************************)
\* the sum of the terms f[1] .. f[k]
RECURSIVE SumTo(_, _)
SumTo(f, k) == IF k = 0 THEN 0 ELSE SumTo(f, k - 1) + f[k]

\* the runs of a keys_vals array, each without the 0 that ends it
RECURSIVE RunsOf(_)
RunsOf(kv) ==
    IF \A i \in 1..Len(kv) : kv[i] # 0 THEN << >>
    ELSE LET z == CHOOSE i \in 1..Len(kv) :
                      kv[i] = 0 /\ \A j \in 1..(i - 1) : kv[j] # 0
         IN  << SubSeq(kv, 1, z - 1) >> \o RunsOf(SubSeq(kv, z + 1, Len(kv)))

\* keys_vals is a concatenation of runs of (key, value) pairs, each ended by 0
IsRunsOfPairs(kv) ==
    /\ kv # << >> => kv[Len(kv)] = 0
    /\ \A r \in 1..Len(RunsOf(kv)) : Len(RunsOf(kv)[r]) % 2 = 0

\* the tags a run stands for
RunTags(stringtable, run) ==
    [t \in 1..(Len(run) \div 2) |->
        << stringtable[run[2 * t - 1] + 1], stringtable[run[2 * t] + 1] >>]

\* the number of nodes in the dense groups before group g
DenseNodesBefore(groups, g) ==
    SumTo([h \in 1..(g - 1) |-> Len(groups[h].dense.id)], g - 1)

\* C21: in every dense group whose keys_vals is a concatenation of runs of
\* (key, value) pairs each ended by 0, the i-th node has the tags of the
\* i-th run, looked up in the stringtable, and no tags when there are fewer
\* runs than i; the runs are counted from the start of keys_vals in every
\* group.
C21_DenseTags ==
    pb_call.result.outcome = "buffer" =>
        LET groups == pb_call.block.primitivegroup IN
        \A g \in 1..Len(groups) :
            LET dense == groups[g].dense
                runs == RunsOf(dense.keys_vals)
            IN  IsRunsOfPairs(dense.keys_vals) =>
                    \A i \in 1..Len(dense.id) :
                        pb_call.result.ents[DenseNodesBefore(groups, g) + i].tags
                            = IF i <= Len(runs)
                              THEN RunTags(pb_call.block.stringtable, runs[i])
                              ELSE << >>

\* the example [1,2,0,0,3,4,0] in a first group of three nodes, and a second
\* group of one node whose keys_vals is [3,4,0]
C21_Witness ==
    /\ pb_call.result.outcome = "buffer"
    /\ Len(pb_call.block.primitivegroup) = 2
    /\ pb_call.block.primitivegroup[1].dense.keys_vals = <<1, 2, 0, 0, 3, 4, 0>>
    /\ Len(pb_call.block.primitivegroup[1].dense.id) = 3
    /\ pb_call.block.primitivegroup[2].dense.keys_vals = <<3, 4, 0>>
    /\ [i \in 1..4 |-> pb_call.result.ents[i].tags]
          = << << <<"a", "b">> >>, << >>, << <<"c", "d">> >>, << <<"c", "d">> >> >>

\* the running sums of a sequence of deltas
Sums(deltas) == [j \in 1..Len(deltas) |-> SumTo(deltas, j)]

\* C22: in a dense group id, lat, lon, changeset, timestamp, uid and
\* user_sid are running sums that start at 0 in every group; the refs of a
\* way and the memids of a relation are running sums that start at 0 in
\* every way and relation; the ids of nodes, ways and relations that are
\* not dense are taken as they are.
C22_DeltaDecoding ==
    pb_call.result.outcome = "buffer" =>
        LET groups == pb_call.block.primitivegroup
            ents == pb_call.result.ents
        IN  \A g \in 1..Len(groups) :
            LET group == groups[g]
                dense == group.dense
                di == dense.denseinfo
            IN  /\ \A i \in 1..Len(dense.id) :
                       LET node == ents[DenseNodesBefore(groups, g) + i] IN
                       /\ node.id = SumTo(dense.id, i)
                       /\ node.location = Location(SumTo(dense.lon, i), SumTo(dense.lat, i))
                       /\ dense.has_denseinfo =>
                              /\ node.changeset = SumTo(di.changeset, i)
                              /\ node.timestamp = SumTo(di.timestamp, i)
                              /\ node.uid = SumTo(di.uid, i)
                              /\ node.user = pb_call.block.stringtable[SumTo(di.user_sid, i) + 1]
                /\ \A i \in 1..Len(group.ways) :
                       /\ ents[i].id = group.ways[i].id
                       /\ ents[i].nodes = Sums(group.ways[i].refs)
                /\ \A i \in 1..Len(group.relations) :
                       /\ ents[i].id = group.relations[i].id
                       /\ [j \in 1..Len(ents[i].members) |-> ents[i].members[j].ref]
                             = Sums(group.relations[i].memids)
                /\ \A i \in 1..Len(group.nodes) :
                       ents[i].id = group.nodes[i].id

\* a way with the refs [100,1,-1,2] that follows a way with a larger id
C22_Witness ==
    /\ pb_call.result.outcome = "buffer"
    /\ Len(pb_call.block.primitivegroup[1].ways) = 2
    /\ pb_call.block.primitivegroup[1].ways[2].refs = <<100, 1, -1, 2>>
    /\ pb_call.result.ents[1].id = 7
    /\ pb_call.result.ents[2].id = 3
    /\ pb_call.result.ents[2].nodes = <<100, 101, 100, 102>>

\* the string at an index of the stringtable, "?" when there is none
StringOrNone(stringtable, idx) ==
    IF idx + 1 \in DOMAIN stringtable THEN stringtable[idx + 1] ELSE "?"

\* the roles of the members of entity i of the buffer
RolesOf(i) ==
    [j \in 1..Len(pb_call.result.ents[i].members) |->
        pb_call.result.ents[i].members[j].role]

\* C23 as stated: the role of the j-th member of a relation is the
\* stringtable entry at the running sum of the roles_sid values up to it.
C23_RolesDeltaEncoded ==
    pb_call.result.outcome = "buffer" =>
        LET relations == pb_call.block.primitivegroup[1].relations IN
        \A i \in 1..Len(relations) :
            RolesOf(i) = [j \in 1..Len(relations[i].roles_sid) |->
                             StringOrNone(pb_call.block.stringtable,
                                          SumTo(relations[i].roles_sid, j))]

\* C23 amended: the roles_sid values of a relation are not delta-encoded, the
\* role of the j-th member is the stringtable entry at roles_sid[j] itself;
\* of the member fields only memids are running sums.
C23_RolesAbsolute ==
    pb_call.result.outcome = "buffer" =>
        LET relations == pb_call.block.primitivegroup[1].relations IN
        \A i \in 1..Len(relations) :
            /\ RolesOf(i) = [j \in 1..Len(relations[i].roles_sid) |->
                                pb_call.block.stringtable[relations[i].roles_sid[j] + 1]]
            /\ [j \in 1..Len(pb_call.result.ents[i].members) |->
                   pb_call.result.ents[i].members[j].ref] = Sums(relations[i].memids)

\* a relation with the roles_sid [2,1] and the memids [2,-1]
C23_Witness ==
    /\ pb_call.result.outcome = "buffer"
    /\ Len(pb_call.block.primitivegroup[1].relations) = 1
    /\ pb_call.block.primitivegroup[1].relations[1].roles_sid = <<2, 1>>
    /\ pb_call.block.primitivegroup[1].relations[1].memids = <<2, -1>>
    /\ RolesOf(1) = <<"b", "a">>
    /\ pb_call.result.ents[1].members[2].ref = 1

\* the number of entities of a group of which one sub-list is populated, and
\* of the groups before group g
EntitiesIn(group) ==
    IF group.has_dense THEN Len(group.dense.id)
    ELSE Len(group.ways) + Len(group.relations) + Len(group.nodes)
EntsBefore(groups, g) ==
    SumTo([h \in 1..(g - 1) |-> EntitiesIn(groups[h])], g - 1)

\* the entity has what an entity without info has
HasNoInfo(ent) == ent.version = 0 /\ ent.visible /\ ent.user = ""

\* a node is visible or has no location, and has the location given if it
\* is visible
VisibleOrNowhere(node, lon, lat) ==
    /\ ~node.visible => node.location = UndefinedLocation
    /\ node.visible => node.location = Location(lon, lat)

\* C24: a node whose visible flag is false has an undefined Location and a
\* node whose visible flag is true has the location computed from its
\* coordinates; visible is true unless a visible field is present and
\* false, for plain nodes (info.visible) and dense nodes
\* (denseinfo.visible(i)) alike; an entity without info has version 0,
\* visible true and an empty user string.
C24_VisibleAndLocation ==
    pb_call.result.outcome = "buffer" =>
        LET groups == pb_call.block.primitivegroup
            ents == pb_call.result.ents
        IN  \A g \in 1..Len(groups) :
            LET group == groups[g]
                dense == group.dense
                first == EntsBefore(groups, g)
            IN  /\ \A i \in 1..Len(dense.id) :
                       LET node == ents[first + i] IN
                       /\ node.visible = ~(/\ dense.has_denseinfo
                                           /\ Len(dense.denseinfo.visible) > 0
                                           /\ ~dense.denseinfo.visible[i])
                       /\ VisibleOrNowhere(node, SumTo(dense.lon, i), SumTo(dense.lat, i))
                       /\ ~dense.has_denseinfo => HasNoInfo(node)
                /\ \A i \in 1..Len(group.nodes) :
                       LET node == ents[first + i]
                           pbf_node == group.nodes[i]
                       IN  /\ node.visible = ~(/\ pbf_node.has_info
                                               /\ pbf_node.info.has_visible
                                               /\ ~pbf_node.info.visible)
                           /\ VisibleOrNowhere(node, pbf_node.lon, pbf_node.lat)
                           /\ ~pbf_node.has_info => HasNoInfo(node)
                /\ \A i \in 1..Len(group.ways) :
                       ~group.ways[i].has_info => HasNoInfo(ents[first + i])
                /\ \A i \in 1..Len(group.relations) :
                       ~group.relations[i].has_info => HasNoInfo(ents[first + i])

\* a dense group of a visible and an invisible node, followed by a node with
\* info but without the visible field
C24_Witness ==
    /\ pb_call.result.outcome = "buffer"
    /\ Len(pb_call.block.primitivegroup) = 2
    /\ pb_call.block.primitivegroup[1].dense.denseinfo.visible = <<TRUE, FALSE>>
    /\ pb_call.block.primitivegroup[2].nodes[1].has_info
    /\ ~pb_call.block.primitivegroup[2].nodes[1].info.has_visible
    /\ [i \in 1..3 |-> pb_call.result.ents[i].visible] = <<TRUE, FALSE, TRUE>>
    /\ [i \in 1..3 |-> pb_call.result.ents[i].location]
          = << Location(-10, 20), UndefinedLocation, Location(-10, 20) >>

\* the first populated sub-list of a group in the order dense, ways,
\* relations, nodes; dense is populated when the group has a dense message
FirstPopulated(group) ==
    CASE group.has_dense -> "dense"
      [] ~group.has_dense /\ group.ways # << >> -> "ways"
      [] ~group.has_dense /\ group.ways = << >> /\ group.relations # << >> -> "relations"
      [] /\ ~group.has_dense /\ group.ways = << >> /\ group.relations = << >>
         /\ group.nodes # << >> -> "nodes"
      [] OTHER -> "none"

\* type and id of the entities of one sub-list of a group, in list order
ListedIn(group, list) ==
    CASE list = "dense" -> [i \in 1..Len(group.dense.id) |-> <<"node", SumTo(group.dense.id, i)>>]
      [] list = "ways" -> [i \in 1..Len(group.ways) |-> <<"way", group.ways[i].id>>]
      [] list = "relations" -> [i \in 1..Len(group.relations) |-> <<"relation", group.relations[i].id>>]
      [] list = "nodes" -> [i \in 1..Len(group.nodes) |-> <<"node", group.nodes[i].id>>]
      [] OTHER -> << >>

\* type and id of the entities of the buffer, in buffer order
Decoded == [i \in 1..Len(pb_call.result.ents) |->
               << pb_call.result.ents[i].type, pb_call.result.ents[i].id >>]

Range(f) == { f[i] : i \in DOMAIN f }

\* C25: the first populated sub-list of a group in the order dense, ways,
\* relations, nodes alone determines what the group adds to the Buffer (its
\* entities if read_types asks for their type, nothing otherwise; the other
\* sub-lists of the group are ignored), and the block fails with an error,
\* whatever read_types is, exactly if a group has none of the four.
C25_FirstPopulatedDecides ==
    pb_call.result.outcome # "none" =>
        LET groups == pb_call.block.primitivegroup IN
        /\ pb_call.result.outcome = "throw"
              <=> \E g \in 1..Len(groups) : FirstPopulated(groups[g]) = "none"
        /\ pb_call.result.outcome = "buffer" =>
              Range(Decoded) =
                 UNION { Range(ListedIn(groups[g], FirstPopulated(groups[g]))) :
                           g \in { h \in 1..Len(groups) :
                                     GroupItemType(FirstPopulated(groups[h])) \in read_types } }

\* a group with dense nodes, ways and nodes yields its dense nodes only; a
\* group with a way and a relation yields nothing when only relations are
\* asked for
C25_Witness ==
    /\ pb_call.result.outcome = "buffer"
    /\ Len(pb_call.block.primitivegroup) = 2
    /\ Len(pb_call.block.primitivegroup[1].dense.id) = 2
    /\ Len(pb_call.block.primitivegroup[1].ways) = 1
    /\ Len(pb_call.block.primitivegroup[1].nodes) = 1
    /\ ~pb_call.block.primitivegroup[2].has_dense
    /\ Len(pb_call.block.primitivegroup[2].ways) = 1
    /\ Len(pb_call.block.primitivegroup[2].relations) = 1
    /\ read_types = {"node", "relation"}
    /\ Decoded = << <<"node", 111>>, <<"node", 112>> >>

\* a group without any sub-list after a good group, nothing asked for
C25_WitnessError ==
    /\ pb_call.result.outcome = "throw"
    /\ pb_call.result.what = "Group of unknown type."
    /\ read_types = {}
    /\ Len(pb_call.block.primitivegroup) = 2
    /\ FirstPopulated(pb_call.block.primitivegroup[1]) = "ways"
    /\ FirstPopulated(pb_call.block.primitivegroup[2]) = "none"

\* the groups of blob num that read_types asks for, as the entities of the
\* model: the kind of the group and its place in the block
WantedGroups(num) ==
    LET groups == BlobOf(num).groups
        asked(pair) == \/ pair[1] \in {"dense", "nodes"} /\ "node" \in read_types
                       \/ pair[1] = "ways" /\ "way" \in read_types
                       \/ pair[1] = "relations" /\ "relation" \in read_types
    IN  SelectSeq([i \in 1..Len(groups) |-> <<groups[i], i>>], asked)

\* C26: the Buffer of a block holds exactly the entities of the groups
\* whose type read_types asks for, in block order; a block of which nothing
\* is asked for still yields its Buffer, without entities, and the default
\* constructed Buffer that ends the stream comes only after the Buffers of
\* all blocks.
C26_ReadTypesFilter ==
    \A k \in 1..Len(delivered) :
        IF k <= NumDataBlobs
        THEN /\ delivered[k].mem = k
             /\ delivered[k].ents = WantedGroups(k - 1)
        ELSE delivered[k] = NoBuffer

\* ways are asked for from a file of two blobs with nodes only: two Buffers
\* without entities, then the Buffer that ends the stream
C26_Witness ==
    /\ read_types = {"way"}
    /\ file = <<HeaderBlob, NodesBlob, NodesBlob>>
    /\ delivered = << [mem |-> 1, ents |-> << >>], [mem |-> 2, ents |-> << >>], NoBuffer >>

\* the groups of a block up to group k with what each adds to the Buffer
RECURSIVE ExpectedUpTo(_, _)
ExpectedUpTo(groups, k) ==
    IF k = 0 THEN << >>
    ELSE ExpectedUpTo(groups, k - 1)
            \o IF GroupItemType(FirstPopulated(groups[k])) \in read_types
               THEN ListedIn(groups[k], FirstPopulated(groups[k]))
               ELSE << >>

\* C27: the entities of a Buffer are in the order of the groups of the
\* block and, within a group, in the order of its list (index order for a
\* dense group), each entity once.
C27_EntityOrder ==
    pb_call.result.outcome = "buffer" =>
        Decoded = ExpectedUpTo(pb_call.block.primitivegroup,
                               Len(pb_call.block.primitivegroup))

\* two nodes of a nodes group, then the two nodes of a dense group
C27_Witness ==
    /\ pb_call.result.outcome = "buffer"
    /\ read_types = {"node"}
    /\ Len(pb_call.block.primitivegroup) = 2
    /\ FirstPopulated(pb_call.block.primitivegroup[1]) = "nodes"
    /\ Decoded = << <<"node", 141>>, <<"node", 142>>, <<"node", 211>>, <<"node", 212>> >>

\* the locations of the nodes of the buffer, as pairs (lon, lat)
DecodedLocations ==
    [i \in 1..Len(pb_call.result.ents) |->
        << pb_call.result.ents[i].location.x, pb_call.result.ents[i].location.y >>]

\* C28 as stated: scenario S1 decodes to the ids 10, 11, 12 and the
\* locations (10,20), (100,250), (50,300) in units of 1e-7 degree.
C28_S1AsStated ==
    (pb_call.block \in {S1Deltas, S1Positions} /\ pb_call.result.outcome # "none") =>
        /\ pb_call.result.outcome = "buffer"
        /\ [i \in 1..Len(pb_call.result.ents) |-> pb_call.result.ents[i].id] = <<10, 11, 12>>
        /\ DecodedLocations = << <<10, 20>>, <<100, 250>>, <<50, 300>> >>

\* C28 amended: scenario S1 decodes to one Buffer of 3 nodes with the ids
\* 10, 11, 12 and, in units of 1e-7 degree, the locations (0,0), (100,200),
\* (50,250) if (0,0), (100,200), (-50,50) are the deltas of the lon/lat
\* arrays, and (0,0), (100,200), (-50,50) if they are the positions.
C28_S1 ==
    (pb_call.block \in {S1Deltas, S1Positions} /\ pb_call.result.outcome # "none") =>
        /\ pb_call.result.outcome = "buffer"
        /\ [i \in 1..Len(pb_call.result.ents) |-> pb_call.result.ents[i].id] = <<10, 11, 12>>
        /\ \A i \in 1..3 : /\ pb_call.result.ents[i].type = "node"
                           /\ pb_call.result.ents[i].location.valid
        /\ pb_call.block = S1Deltas =>
              DecodedLocations = << <<0, 0>>, <<100, 200>>, <<50, 250>> >>
        /\ pb_call.block = S1Positions =>
              DecodedLocations = << <<0, 0>>, <<100, 200>>, <<-50, 50>> >>

C28_Witness ==
    /\ pb_call.block = S1Deltas
    /\ pb_call.result.outcome = "buffer"
    /\ Len(pb_call.result.ents) = 3
    /\ DecodedLocations[3] = <<50, 250>>

\* q is v / d in integer arithmetic, the quotient cut off toward zero
IsQuotient(q, v, d) ==
    IF v >= 0 THEN 0 <= v - q * d /\ v - q * d < d
    ELSE -d < v - q * d /\ v - q * d <= 0

\* the location is the one normalised from the raw coordinates
Normalised(location, raw_lon, raw_lat) ==
    LET block == pb_call.block IN
    /\ location.valid
    /\ IsQuotient(location.x, raw_lon * block.granularity + block.lon_offset, 100)
    /\ IsQuotient(location.y, raw_lat * block.granularity + block.lat_offset, 100)
    /\ (block.granularity = 100 /\ block.lon_offset = 0) => location.x = raw_lon
    /\ (block.granularity = 100 /\ block.lat_offset = 0) => location.y = raw_lat

\* C29: the coordinates of a visible node are (raw * granularity + offset)
\* / 100 in integer arithmetic, raw being the value of the node for plain
\* nodes and the running sum of the deltas for dense nodes, lon with
\* lon_offset and lat with lat_offset; with granularity 100 and offset 0 the
\* coordinate equals raw.
C29_Coordinates ==
    pb_call.result.outcome = "buffer" =>
        LET group == pb_call.block.primitivegroup[1]
            ents == pb_call.result.ents
        IN  /\ \A i \in 1..Len(group.dense.id) :
                   ents[i].visible =>
                       Normalised(ents[i].location, SumTo(group.dense.lon, i),
                                  SumTo(group.dense.lat, i))
            /\ \A i \in 1..Len(group.nodes) :
                   ents[i].visible =>
                       Normalised(ents[i].location, group.nodes[i].lon, group.nodes[i].lat)

\* a dense node at the raw position (-1, -1), granularity 250, offsets -150
\* and 70: (-400 / 100, -180 / 100) = (-4, -1)
C29_Witness ==
    /\ pb_call.result.outcome = "buffer"
    /\ pb_call.block.granularity = 250
    /\ pb_call.block.lon_offset = -150
    /\ pb_call.block.lat_offset = 70
    /\ pb_call.block.primitivegroup[1].dense.lon = <<2, -3>>
    /\ pb_call.block.primitivegroup[1].dense.lat = <<2, -3>>
    /\ DecodedLocations = << <<3, 5>>, <<-4, -1>> >>

\* the timestamps of the entities of the buffer, and the pbf_timestamp of
\* each: the field of its info, the running sum for a dense node, 0 for an
\* entity without info, whose timestamp is not set
DecodedTimestamps ==
    [i \in 1..Len(pb_call.result.ents) |-> pb_call.result.ents[i].timestamp]
PbfTimestamps ==
    LET group == pb_call.block.primitivegroup[1]
        of(x) == IF x.has_info THEN x.info.timestamp ELSE 0
    IN  IF group.has_dense
        THEN [i \in 1..Len(group.dense.id) |->
                 IF group.dense.has_denseinfo
                 THEN SumTo(group.dense.denseinfo.timestamp, i) ELSE 0]
        ELSE [i \in 1..Len(group.ways) |-> of(group.ways[i])]
                \o [i \in 1..Len(group.relations) |-> of(group.relations[i])]
                \o [i \in 1..Len(group.nodes) |-> of(group.nodes[i])]

\* every timestamp is pbf_timestamp * (date_granularity / 1000)
TimestampsScaled ==
    \E q \in (-3)..3 :
        /\ IsQuotient(q, pb_call.block.date_granularity, 1000)
        /\ DecodedTimestamps = [i \in DOMAIN PbfTimestamps |-> PbfTimestamps[i] * q]

\* C30 as stated: every timestamp is pbf_timestamp * (date_granularity /
\* 1000) with an integer division, pbf_timestamp for date_granularity 1000
\* and 0 for any date_granularity below 1000.
C30_TimestampsAsStated ==
    pb_call.result.outcome = "buffer" =>
        /\ TimestampsScaled
        /\ pb_call.block.date_granularity = 1000 => DecodedTimestamps = PbfTimestamps
        /\ pb_call.block.date_granularity < 1000 =>
              \A i \in DOMAIN DecodedTimestamps : DecodedTimestamps[i] = 0

\* C30 amended: every timestamp is pbf_timestamp * (date_granularity / 1000)
\* with an integer division that cuts off toward zero, pbf_timestamp being
\* the running sum of the deltas for dense nodes: pbf_timestamp for
\* date_granularity 1000, 0 for any date_granularity from -999 to 999; a
\* date_granularity of -1000 or below gives negative multiples.
C30_Timestamps ==
    pb_call.result.outcome = "buffer" =>
        /\ TimestampsScaled
        /\ pb_call.block.date_granularity = 1000 => DecodedTimestamps = PbfTimestamps
        /\ pb_call.block.date_granularity \in (-999)..999 =>
              \A i \in DOMAIN DecodedTimestamps : DecodedTimestamps[i] = 0
        /\ pb_call.block.date_granularity <= -1000 =>
              \A i \in DOMAIN DecodedTimestamps :
                  PbfTimestamps[i] > 0 => DecodedTimestamps[i] < 0

\* dense nodes with the timestamp deltas [3,-2] at date_granularity 999
C30_Witness ==
    /\ pb_call.result.outcome = "buffer"
    /\ pb_call.block.primitivegroup[1].dense.has_denseinfo
    /\ pb_call.block.primitivegroup[1].dense.denseinfo.timestamp = <<3, -2>>
    /\ pb_call.block.date_granularity = 999
    /\ DecodedTimestamps = <<0, 0>>

(***************************************************************************)
(* Properties of SortedQueue: the unfilled slot and the shape of the deque.*)
(***************************************************************************)
\* the value T() has been pushed with the number of the front
SentinelAtFront ==
    /\ m_offset \in DOMAIN sq_pushed
    /\ sq_pushed[m_offset] = NoBuffer

\* C31: a pushed value equal to T() is an unfilled slot for the queue: once
\* T() has been pushed with the front number, every number below it pushed
\* too, empty() is true, try_pop returns false and changes nothing, and
\* wait_and_pop goes to sleep or stays in its wait; nothing is handed out.
C31_SentinelUnfilled ==
    /\ [](SentinelAtFront => (empty /\ m_queue[1] = NoBuffer))
    /\ [][(SentinelAtFront /\ SQ_TryPop) =>
             (sq_ret' = [op |-> "try_pop", val |-> FALSE]
              /\ UNCHANGED << m_queue, m_offset, sq_out >>)]_vars
    /\ [][(SentinelAtFront /\ SQ_WaitAndPop) => cons_pc' = "waiting"]_vars
    /\ [][SentinelAtFront =>
             (/\ cons_pc \in {"waiting", "woken"} => cons_pc' \in {"waiting", "woken"}
              /\ UNCHANGED << m_offset, delivered, sq_out >>
              /\ SentinelAtFront')]_vars

\* number 0 was popped, T() pushed with number 1 and a value with number 2:
\* try_pop returned false and wait_and_pop sleeps
C31_Witness ==
    /\ SentinelAtFront
    /\ m_offset = 1
    /\ 2 \in DOMAIN sq_pushed
    /\ sq_pushed[2] # NoBuffer
    /\ sq_ret = [op |-> "try_pop", val |-> FALSE]
    /\ cons_pc = "waiting"

\* the slots of the deque that hold a value other than T()
FilledSlotsOf(q) == { i \in 1..Len(q) : q[i] # NoBuffer }

SlotUnfilled(k) ==
    \/ k - m_offset + 1 > Len(m_queue)
    \/ m_queue[k - m_offset + 1] = NoBuffer

\* this step pushes the buffer of blob k to the reorder queue
PushOf(k) ==
    /\ m_queue' # m_queue
    /\ m_offset' = m_offset
    /\ \/ k \in running /\ k \notin running'
       \/ reader_pc = "dispatch" /\ num_threads = 0 /\ k = n

\* C34: the blob the framing thread has just read, the (n+1)-th OSMData
\* blob of the file, is dispatched with the number n, n counting 0, 1, 2,
\* ... without gaps; the numbers waiting in the work queue, those with the
\* workers and those of the filled slots are all different, so no number
\* is pushed twice: a push of number k finds its slot unfilled and k not
\* below the offset of the queue.
C34_SequenceNumbers ==
    /\ [](IF reader_pc \in {"dispatch", "wait_work"}
          THEN fd_pos = n + 2
          ELSE fd_pos = n + 1 \/ (fd_pos = 0 /\ n = 0))
    /\ [](/\ \A i \in 1..Len(work_queue) :
                /\ work_queue[i] \notin running
                /\ work_queue[i] <= fd_pos - 2
                /\ \A j \in 1..(i - 1) : work_queue[j] < work_queue[i]
          /\ \A k \in running : k <= fd_pos - 2
          /\ \A s \in FilledSlots :
                /\ m_queue[s].mem - 1 = m_offset + s - 1
                /\ m_queue[s].mem - 1 \notin running
                /\ \A i \in 1..Len(work_queue) : work_queue[i] # m_queue[s].mem - 1)
    /\ [][\A k \in 0..MaxBlobs :
             PushOf(k) => (k >= m_offset /\ SlotUnfilled(k)
                           /\ m_queue'[k - m_offset + 1].mem = k + 1)]_vars

\* the buffers of the numbers 0 and 2 were pushed and number 0 was popped
\* while number 1 is still with a worker
C34_Witness ==
    /\ n = 3
    /\ m_offset = 1
    /\ running = {1}
    /\ work_queue = << >>
    /\ Len(m_queue) >= 2
    /\ m_queue[2].mem = 3

\* C36: m_pending_jobs is the number of blobs read by the framing thread
\* minus the number of buffers popped, never negative and never less than
\* the number of blobs dispatched and not popped; a buffer in the reorder
\* queue has been counted, and the counter goes down only by one in the
\* step that pops a buffer.
C36_PendingJobs ==
    /\ [](/\ m_pending_jobs >= 0
          /\ m_pending_jobs = (IF fd_pos = 0 THEN 0 ELSE fd_pos - 1) - m_offset
          /\ m_pending_jobs >= Len(work_queue) + Cardinality(running)
                                   + Cardinality(FilledSlots)
          /\ \A s \in FilledSlots : m_queue[s].mem <= fd_pos - 1)
    /\ [][m_pending_jobs' < m_pending_jobs =>
             (/\ m_pending_jobs' = m_pending_jobs - 1
              /\ m_offset' = m_offset + 1
              /\ ~empty_intern(m_queue)
              /\ Len(delivered') = Len(delivered) + 1)]_vars

\* three blobs were read, the first is popped, the second is in the queue
\* and the third is with a worker: the counter is 2
C36_Witness ==
    /\ m_pending_jobs = 2
    /\ fd_pos = 4
    /\ m_offset = 1
    /\ m_queue[1] # NoBuffer
    /\ running = {2}

\* the i-th blob of the file is an OSMData BlobHeader with datasize 0
ZeroSizeAt(i) ==
    /\ i \in 2..Len(file)
    /\ file[i].type = "OSMData"
    /\ file[i].datasize = 0

\* C37: at an OSMData BlobHeader with datasize 0 the framing thread leaves
\* its loop as at the end of the file: no exception, nothing read, counted
\* or numbered for it, and m_done set next; the blob and the blobs behind it
\* are never read, queued or delivered.
C37_ZeroSizeEndsReading ==
    /\ [][(reader_pc = "read" /\ ZeroSizeAt(fd_pos + 1) /\ reader_pc' # reader_pc) =>
             (/\ reader_pc' = "set_done"
              /\ UNCHANGED << fd_pos, n, m_pending_jobs, aborted, failed,
                              work_queue, m_queue >>)]_vars
    /\ [][(reader_pc = "set_done" /\ reader_pc' # reader_pc) =>
             (m_done' /\ reader_pc' = "finished")]_vars
    /\ [](\A i \in 2..Len(file) :
             ZeroSizeAt(i) =>
                 /\ fd_pos < i
                 /\ n <= i - 2
                 /\ \A s \in FilledSlots : m_queue[s].mem < i - 1
                 /\ \A j \in 1..Len(delivered) : delivered[j].mem < i - 1)

\* a data blob, a BlobHeader with datasize 0 and another data blob: the
\* caller got the first buffer and then the empty one
C37_Witness ==
    /\ file = <<HeaderBlob, GoodBlob, ZeroSizeBlob, GoodBlob>>
    /\ ~aborted
    /\ reader_pc = "finished"
    /\ m_done
    /\ fd_pos = 2
    /\ delivered = <<DecodedBuffer(0), NoBuffer>>

(***************************************************************************)
(* Properties of add_tags: the reads of keys_vals.                         *)
(***************************************************************************)
\* the indexes at which add_tags(dense, pos, builder) reads keys_vals
RECURSIVE KeysValsRead(_, _)
KeysValsRead(keys_vals, pos) ==
    IF pos >= Len(keys_vals) THEN {}
    ELSE IF keys_vals[pos + 1] = 0 THEN {pos}
    ELSE {pos, pos + 1} \cup KeysValsRead(keys_vals, pos + 2)

\* last_dense_tag after the first i nodes of a dense group
RECURSIVE TagCursorAfter(_, _)
TagCursorAfter(dense, i) ==
    IF i = 0 THEN 0
    ELSE add_tags([m_stringtable |-> pb_call.block.stringtable, oob |-> 0],
                  dense, TagCursorAfter(dense, i - 1)).pos

\* the reads and the cursors of the add_tags calls of all dense groups are
\* within keys_vals
ReadsInBounds(groups) ==
    \A g \in 1..Len(groups) :
        LET dense == groups[g].dense IN
        \A i \in 1..Len(dense.id) :
            /\ \A idx \in KeysValsRead(dense.keys_vals, TagCursorAfter(dense, i - 1)) :
                   idx < Len(dense.keys_vals)
            /\ TagCursorAfter(dense, i - 1) <= TagCursorAfter(dense, i)
            /\ TagCursorAfter(dense, i) <= Len(dense.keys_vals)

\* C38 (as stated): for every keys_vals array, arrays that end with a key
\* index without a value or without the final 0 included, add_tags reads
\* keys_vals only at indexes below keys_vals_size(), and the cursor it
\* returns is at least the cursor passed in and at most keys_vals_size().
C38_ReadsInBounds ==
    pb_call.result.outcome = "buffer" =>
        ReadsInBounds(pb_call.block.primitivegroup)

\* What holds instead: the reads and the cursors are within keys_vals when
\* every key index is followed by a value index (the final 0 may be
\* missing).
ReadsInBoundsWhenPaired ==
    pb_call.result.outcome = "buffer" =>
        \/ ReadsInBounds(pb_call.block.primitivegroup)
        \/ \E g \in 1..Len(pb_call.block.primitivegroup) :
              LET kv == pb_call.block.primitivegroup[g].dense.keys_vals
              IN  \E r \in 1..Len(RunsOf(kv \o <<0>>)) :
                      Len(RunsOf(kv \o <<0>>)[r]) % 2 = 1

(***************************************************************************)
(* Properties of TagListBuilder.                                           *)
(***************************************************************************)
\* the bytes of the strings key, value of every call, in call order
RECURSIVE KeyValueBytes(_)
KeyValueBytes(calls) ==
    IF calls = << >> THEN << >>
    ELSE calls[1][1] \o <<0>> \o calls[1][2] \o <<0>> \o KeyValueBytes(Tail(calls))

\* the bytes are those of the calls in call order, the two strings of each
\* call in either order
RECURSIVE PairsInSomeOrder(_, _)
PairsInSomeOrder(data, calls) ==
    IF calls = << >> THEN data = << >>
    ELSE LET k0 == calls[1][1] \o <<0>>
             v0 == calls[1][2] \o <<0>>
             m == Len(k0) + Len(v0)
         IN  /\ Len(data) >= m
             /\ SubSeq(data, 1, m) \in { k0 \o v0, v0 \o k0 }
             /\ PairsInSomeOrder(SubSeq(data, m + 1, Len(data)), Tail(calls))

\* the number of NUL-terminated strings is twice the number of calls, the
\* size accumulator grew by strlen(key) + 1 + strlen(value) + 1 per call,
\* and the length recorded on release is a multiple of 8 with the padding
\* zeroed
TagListSizes ==
    LET b == tl_builder
        strings == Len(KeyValueBytes(b.calls))
    IN  /\ b.state = "open" =>
               /\ Cardinality({ i \in 1..Len(b.data) : b.data[i] = 0 }) = 2 * Len(b.calls)
               /\ b.data # << >> => b.data[Len(b.data)] = 0
               /\ b.size = 8 + strings
               /\ Len(b.data) = strings
        /\ b.state = "released" =>
               /\ b.recorded % 8 = 0
               /\ b.recorded = b.size
               /\ b.recorded - (8 + strings) \in 0..7
               /\ Len(b.data) = b.recorded - 8
               /\ \A i \in (strings + 1)..Len(b.data) : b.data[i] = 0

\* C32 (as stated): after any sequence of add_tag(key, value) calls the tag
\* list holds an even number of NUL-terminated strings, keys and values
\* alternating in call order, its size grew by strlen(key) + 1 +
\* strlen(value) + 1 per call, and on release the list is padded so that
\* its recorded length is a multiple of 8.
C32_TagList ==
    /\ TagListSizes
    /\ tl_builder.state # "none" =>
           SubSeq(tl_builder.data, 1, Len(KeyValueBytes(tl_builder.calls)))
               = KeyValueBytes(tl_builder.calls)

\* What holds instead: the sizes and the padding are as stated, and every
\* call adds its two strings next to each other, in an order the build
\* decides.
TagListPairsUnordered ==
    /\ TagListSizes
    /\ tl_builder.state # "none" =>
           PairsInSomeOrder(SubSeq(tl_builder.data, 1, Len(KeyValueBytes(tl_builder.calls))),
                            tl_builder.calls)

(***************************************************************************)
(* Properties of CheckedTask.                                              *)
(***************************************************************************)
\* the calls of the owning thread that rethrew the exception of the task
Rethrown == { i \in 1..Len(checked_task.rets) : checked_task.rets[i].exc }

\* C33: the exception of the task is rethrown to the owning thread by at
\* most one of all its check_for_exception() and close() calls, and only
\* when the task threw; check_for_exception() can always be called without
\* waiting, and while the task is running or when it ended without an
\* exception it returns normally and leaves the thread alone; close()
\* returns, normally or with the exception, only when the task has ended,
\* and normally only when the thread has been joined.
C33_RethrownOnce ==
    /\ [](/\ Cardinality(Rethrown) <= 1
          /\ Rethrown # {} => checked_task.threw)
    /\ []((/\ checked_task.state = "alive"
           /\ checked_task.pc = "idle"
           /\ ~checked_task.in_destructor
           /\ Len(checked_task.rets) < MaxTaskCalls) => ENABLED CT_CheckForException)
    /\ [][(CT_CheckForException /\ (checked_task.task = "running" \/ ~checked_task.threw)) =>
             (/\ ~checked_task'.rets[Len(checked_task'.rets)].exc
              /\ checked_task'.task = checked_task.task
              /\ checked_task'.joinable = checked_task.joinable
              /\ checked_task'.pc = "idle")]_vars
    /\ [][(checked_task.pc \in {"get", "join"} /\ checked_task'.pc = "idle") =>
             (/\ checked_task.task # "running"
              /\ (~checked_task.threw \/ ~checked_task.m_future_valid) =>
                     (checked_task.task = "exited" /\ ~checked_task'.joinable))]_vars

\* check_for_exception() found the task running and returned, the task
\* threw, the next check_for_exception() rethrew the exception, and close()
\* joined the thread and returned normally
C33_Witness ==
    /\ checked_task.state = "alive"
    /\ checked_task.threw
    /\ ~checked_task.joinable
    /\ checked_task.rets = << [op |-> "check_for_exception", exc |-> FALSE],
                              [op |-> "check_for_exception", exc |-> TRUE],
                              [op |-> "close", exc |-> FALSE] >>

(***************************************************************************)
(* Properties of WKBFactory.                                               *)
(***************************************************************************)
\* the bytes of the geometry returned by the last call
ReturnedBytes ==
    IF wkb_factory.m_hex
    THEN [i \in 1..(Len(wkb_factory.ret.data) \div 2) |->
             16 * wkb_factory.ret.data[2 * i - 1] + wkb_factory.ret.data[2 * i]]
    ELSE wkb_factory.ret.data

\* the header of a linestring in the mode of the factory
LinestringHeader == header(<< >>, wkbLineString, wkb_factory.m_ewkb)

\* linestring_finish() after fewer than 2 locations fails and clears m_data
FinishFailsBelowTwo ==
    (wkb_factory.ret.op = "linestring_finish" /\ Len(wkb_factory.added) < 2) =>
        (wkb_factory.ret.outcome = "geometry_error" /\ wkb_factory.m_data = << >>)

\* C40 (as stated): linestring_finish() fails with geometry_error and
\* clears the data when fewer than 2 locations were added since
\* linestring_start(); otherwise, in WKB and in EWKB mode, the geometry
\* returned starts with the header (byte order, type and, for EWKB, the
\* SRID 4326) and the uint32 behind the header is the number of locations
\* added since the last linestring_start().
C40_Linestring ==
    /\ FinishFailsBelowTwo
    /\ (wkb_factory.ret.op = "linestring_finish" /\ Len(wkb_factory.added) >= 2) =>
           /\ wkb_factory.ret.outcome = "returned"
           /\ SubSeq(ReturnedBytes, 1, Len(LinestringHeader)) = LinestringHeader
           /\ SubSeq(ReturnedBytes, Len(LinestringHeader) + 1, Len(LinestringHeader) + 4)
                  = str_push(<< >>, Len(wkb_factory.added), 4)

\* What holds instead: as stated in WKB mode; in EWKB mode the number of
\* locations stands in the place of the SRID, behind byte order and type,
\* and the uint32 behind the header is 0.
LinestringCountAtByte5 ==
    /\ FinishFailsBelowTwo
    /\ (wkb_factory.ret.op = "linestring_finish" /\ Len(wkb_factory.added) >= 2) =>
           /\ wkb_factory.ret.outcome = "returned"
           /\ SubSeq(ReturnedBytes, 1, 5) = SubSeq(LinestringHeader, 1, 5)
           /\ SubSeq(ReturnedBytes, 6, 9) = str_push(<< >>, Len(wkb_factory.added), 4)
           /\ wkb_factory.m_ewkb => SubSeq(ReturnedBytes, 10, 13) = <<0, 0, 0, 0>>
           /\ Len(ReturnedBytes) = Len(LinestringHeader) + 4 + 16 * Len(wkb_factory.added)

(***************************************************************************)
(* Properties of Writer: the end-of-data marker.                           *)
(***************************************************************************)
\* the places of the end-of-data markers among the entries of the queue
EndOfDataAt == { i \in 1..Len(w_output) : w_output[i] = EndOfDataEv }

\* C39 (as stated): when the Writer has been destroyed, after any sequence
\* of writes, flushes, failing writes and zero or more explicit close()
\* calls, the end-of-data marker has been added to the output queue exactly
\* once and nothing has been added after it.
C39_EndOfDataOnce ==
    w_ret.op = "destroy" =>
        /\ Cardinality(EndOfDataAt) = 1
        /\ w_output[Len(w_output)] = EndOfDataEv

\* What holds instead: behind the first marker there are only markers, one
\* per close() that came to its end; a close() that returned has added one;
\* the queue of a destroyed Writer ends with a marker or, when the write in
\* the close() of the destructor failed, with the exception and no marker.
EndOfDataOnlyRepeated ==
    /\ \A i \in EndOfDataAt : \A j \in i..Len(w_output) : w_output[j] = EndOfDataEv
    /\ (w_ret.op = "close" /\ w_ret.exc = "none") =>
           w_output[Len(w_output)] = EndOfDataEv
    /\ w_ret.op = "destroy" =>
           \/ w_output[Len(w_output)] = EndOfDataEv
           \/ /\ EndOfDataAt = {}
              /\ m_status = "error"
              /\ SubSeq(w_output, Len(w_output) - 1, Len(w_output))
                     = << ExceptionEv, WriteEndEv >>

====
